---- MODULE Spec2Model ----
(***************************************************************************)
(* A model of the Q-learning teacher/student simulation:                   *)
(*   src/src/learning_environment.py  LearningEnvironment                  *)
(*   src/src/q_learning_framework.py  QLearningFramework                   *)
(* Texts are sequences of one-character strings, so that the substring     *)
(* tests of the code ("Error" in text, "correct" in feedback.lower()) are  *)
(* computed and not assumed.  Numbers (rewards, Q-values) are fixed-point  *)
(* integers in units of 1/Scale; the arithmetic of the code is modelled as *)
(* exact arithmetic (the rounding of binary floating point is not          *)
(* modelled).                                                              *)
(***************************************************************************)
EXTENDS Integers, Sequences, FiniteSets, TLC

(***************************************************************************)
(* The state.  The first group is the state of the program; calls,         *)
(* synthLog, evolveLog and atRoundStart are history variables: what was    *)
(* called with what, and what the state was when the round began.          *)
(***************************************************************************)
VARIABLES
    pc,                         \* where run_simulation stands
    num_rounds,                 \* run_simulation's arguments
    evolution_interval,
    socketio,                   \* run_simulation's observer: TRUE when one is given
    progress,                   \* the last 'simulation_progress' event emitted
    topics,                     \* the caller's list, grown in place
    i,                          \* the loop index of run_simulation
    current_round_number,       \* self.current_round_number
    rewards_history,            \* run_simulation's local window
    simulation_results,         \* self.simulation_results
    q_table,                    \* self.q_learner.q_table
    epsilon,                    \* self.q_learner.epsilon, in tenths
    current_topic,              \* locals of the round in progress
    problem,
    student_conceptual_action,
    student_response,
    teacher_feedback,
    reward,
    round_data,                 \* what run_interaction_round returned
    summary,                    \* run_simulation's summary = self.get_summary_statistics()
    calls,                      \* the calls of the current round, in order
    synthLog,                   \* the round indexes of the synthesis requests of the run
    genLog,                     \* the round indexes of the problem-generation requests of the run
    lastUpdate,                 \* the last update_q_value of the run: round, key, value stored
    evolveLog,                  \* the evolve calls of the run
    atRoundStart,               \* q_table, results, window, topics when the round began
    simulation_running,         \* app.py's global flag
    task_pc,                    \* where run_simulation_task stands
    emitted,                    \* the status and results events the task has emitted
    events,                     \* where the handler of each start_simulation event stands
    threads,                    \* where the simulation thread of each event stands
    log_queue,                  \* app.py's queue of log lines
    lines_put,                  \* the number of log lines put on the queue so far
    connect_pc,                 \* where the connect handler stands
    emitter_msg,                \* the line log_emitter_task holds between get and emit
    taken,                      \* for each log line, the consumers that took it
    reruns,                     \* the number of further run_simulation calls on the environment
    earlier_results             \* what the first run_simulation returned

(***************************************************************************)
(* Bounds of the model.                                                    *)
(***************************************************************************)
MaxRounds == 3

MaxInterval == 4

\* the number of update_q_value calls made on a policy on its own
\* (at most MaxRounds, for the arithmetic to be exact)
MaxUpdates == 2

\* the number of pieces of a feedback text given to the reward function
MaxPieces == 3

\* the number of times the reward function is applied to one text
MaxExtractions == 2

\* the number of start_simulation events the server receives
MaxEvents == 3

\* the number of log lines put on the queue
MaxLines == 4

\* the number of rounds of a second run_simulation on the same environment
MaxAgain == 1

(***************************************************************************)
(* Numbers.  1.0 is Scale; every update of a Q-value divides by            *)
(* AlphaDen * GammaDen = 100 once, and a run makes at most MaxRounds       *)
(* updates, so every value of a run is an integer in these units.          *)
(***************************************************************************)
RECURSIVE Pow(_, _)
Pow(b, n) == IF n = 0 THEN 1 ELSE b * Pow(b, n - 1)

AlphaNum == 1

AlphaDen == 10

GammaNum == 9

GammaDen == 10

Scale == 2 * Pow(AlphaDen * GammaDen, MaxRounds)

Half == Scale \div 2

RECURSIVE Sum(_)
Sum(s) == IF s = <<>> THEN 0 ELSE Head(s) + Sum(Tail(s))

RECURSIVE Gcd(_, _)
Gcd(a, b) == IF b = 0 THEN a ELSE Gcd(b, a % b)

Abs(x) == IF x < 0 THEN -x ELSE x

\* the exact quotient n / d (d > 0) as a reduced fraction
Quotient(n, d) ==
    LET g == Gcd(Abs(n), d)
    IN  [num |-> n \div g, den |-> d \div g]

\* sum(xs) / len(xs)
Mean(xs) == Quotient(Sum(xs), Len(xs))

SetMax(S) == CHOOSE x \in S : \A y \in S : y <= x

SetMin(S) == CHOOSE x \in S : \A y \in S : x <= y

Range(s) == {s[k] : k \in 1..Len(s)}

NoDuplicates(s) == \A a, b \in 1..Len(s) : s[a] = s[b] => a = b

IsPrefix(s, t) == Len(s) <= Len(t) /\ SubSeq(t, 1, Len(s)) = s

(***************************************************************************)
(* Texts.                                                                  *)
(***************************************************************************)
UpperCase == <<"A","B","C","D","E","F","G","H","I","J","K","L","M",
               "N","O","P","Q","R","S","T","U","V","W","X","Y","Z">>

LowerCase == <<"a","b","c","d","e","f","g","h","i","j","k","l","m",
               "n","o","p","q","r","s","t","u","v","w","x","y","z">>

\* the lower-case letter of each upper-case letter
LowerOf ==
    [c \in {UpperCase[k] : k \in 1..Len(UpperCase)} |->
        LowerCase[CHOOSE k \in 1..Len(UpperCase) : UpperCase[k] = c]]

LowerChar(c) == IF c \in DOMAIN LowerOf THEN LowerOf[c] ELSE c

\* str.lower()
Lower(text) == [k \in 1..Len(text) |-> LowerChar(text[k])]

\* pat in text
Contains(text, pat) ==
    \E k \in 1..(Len(text) - Len(pat) + 1) :
        \A j \in 1..Len(pat) : text[k + j - 1] = pat[j]

\* the truth value of a str: the empty text is false
Truthy(text) == Len(text) > 0

ErrorMarker == <<"E","r","r","o","r">>

KwCorrect == <<"c","o","r","r","e","c","t">>

KwIncorrect == <<"i","n","c","o","r","r","e","c","t">>

KwStrengths == <<"s","t","r","e","n","g","t","h","s">>

KwImprovement == <<"i","m","p","r","o","v","e","m","e","n","t">>

GeneralKnowledge == <<"g","e","n","e","r","a","l"," ","k","n","o","w","l","e","d","g","e">>

(***************************************************************************)
(* What the collaborators (teacher, student: text generation by a language *)
(* model) can return: any text.  The model draws from these.               *)
(***************************************************************************)
ProblemOk == <<"Q","?">>

ProblemErr == <<"E","r","r","o","r",":"," ","g">>

ProblemTexts == {ProblemOk, ProblemErr}

ResponseOk == <<"4">>

ResponseErr == <<"E","r","r","o","r",":"," ","s">>

ResponseTexts == {ResponseOk, ResponseErr}

\* what OllamaClient.generate_response returns: None, or a text
NoResponse == [none |-> TRUE, text |-> <<>>]

SomeResponse(text) == [none |-> FALSE, text |-> text]

\* `if response:` is false of None and of the empty text
ResponseTruthy(response) == ~response.none /\ Truthy(response.text)

\* what reflect_on_feedback, run inside process_feedback, yields
ReflectionOk == <<"o","k">>

ReflectionErr == <<"E","r","r","o","r",":"," ","r">>

ReflectionTexts == {ReflectionOk, ReflectionErr}

FeedbackGood == <<"C","o","r","r","e","c","t"," ","s","t","r","e","n","g","t","h","s">>

FeedbackBad == <<"I","n","c","o","r","r","e","c","t"," ","i","m","p","r","o","v","e","m","e","n","t">>

FeedbackErr == <<"E","r","r","o","r",":"," ","e">>

FeedbackTexts == {FeedbackGood, FeedbackBad, FeedbackErr}

\* what the client returns to each of the three wrappers of a round
ProblemResponses == {NoResponse, SomeResponse(<<>>), SomeResponse(ProblemOk)}

SolveResponses == {NoResponse, SomeResponse(<<>>), SomeResponse(ResponseOk)}

FeedbackResponses ==
    {NoResponse, SomeResponse(<<>>), SomeResponse(FeedbackGood), SomeResponse(FeedbackBad)}

\* the wrapper handing on whatever text the client gave
solve_problem_passes_through(response) == response.text

\* StudentAgent.solve_problem: the response, or the error text when it is missing
solve_problem(response) ==
    IF ResponseTruthy(response) THEN response.text ELSE ResponseErr

\* TeacherAgent.generate_learning_material
generate_learning_material(response) ==
    IF ResponseTruthy(response) THEN response.text ELSE ProblemErr

\* TeacherAgent.evaluate_student_response
evaluate_student_response(response) ==
    IF ResponseTruthy(response) THEN response.text ELSE FeedbackErr

\* the pieces the feedback texts given to _get_reward_from_feedback are made of
PieceCorrect == <<"C","o","r","r","e","c","t">>

PieceIncorrect == <<"I","N","C","O","R","R","E","C","T">>

PieceStrengths == <<"s","t","r","e","n","g","t","h","s">>

PieceImprovement == <<"I","m","p","r","o","v","e","m","e","n","t">>

PieceIn == <<"i","n">>

PieceSpace == <<" ">>

FeedbackPieces == {PieceCorrect, PieceIncorrect, PieceStrengths, PieceImprovement,
                   PieceIn, PieceSpace}

\* the feedback texts: up to MaxPieces pieces, one after the other
FeedbackInputs ==
    LET RECURSIVE Upto(_)
        Upto(n) == IF n = 0 THEN {<<>>}
                   ELSE Upto(n - 1) \cup {t \o p : t \in Upto(n - 1), p \in FeedbackPieces}
    IN  Upto(MaxPieces)

TopicRL == <<"R","L">>

TopicNN == <<"N","N">>

TopicErr == <<"E","r","r","o","r",":"," ","t">>

SynthesizedTexts == {TopicNN, <<>>, TopicErr}

\* the curricula run_simulation is started with
InitialTopicLists == {<<>>, <<TopicRL>>}

\* the actions a QLearningFramework is constructed with
actions == <<"answer_concisely", "answer_in_detail">>

\* epsilon, in tenths: QLearningFramework(actions=..., epsilon=0.5)
AppEpsilon == 5

\* what random.uniform(0, 1) can return, in tenths: 0 + (1 - 0) * random.random(),
\* and random.random() is in [0.0, 1.0)
UniformDraws == {0, 5, 9}

\* the states a policy on its own is asked about: the empty state and a topic
PolicyStates == {<<>>, TopicRL}

\* the rewards a policy on its own is updated with: 1.0 and -0.5
PolicyRewards == {Scale, -Half}

\* the values of epsilon a policy on its own is constructed with, in tenths
PolicyEpsilons == {0, 1, AppEpsilon, 10}

(***************************************************************************)
(* LearningEnvironment._get_reward_from_feedback                           *)
(***************************************************************************)
\* the reward kept from one call to the next instead of starting at 0.0
_get_reward_from_feedback_accumulating(feedback) ==
    LET feedback_lower == Lower(feedback)
        r1 == IF Contains(feedback_lower, KwCorrect) /\ ~Contains(feedback_lower, KwIncorrect)
              THEN reward + Scale ELSE reward
        r2 == IF Contains(feedback_lower, KwIncorrect) THEN r1 - Scale ELSE r1
        r3 == IF Contains(feedback_lower, KwStrengths) THEN r2 + Half ELSE r2
        r4 == IF Contains(feedback_lower, KwImprovement) THEN r3 - Half ELSE r3
    IN  r4

\* "correct" counted without the test of "incorrect"
_get_reward_from_feedback_unguarded(feedback) ==
    LET feedback_lower == Lower(feedback)
        r1 == IF Contains(feedback_lower, KwCorrect) THEN Scale ELSE 0
        r2 == IF Contains(feedback_lower, KwIncorrect) THEN r1 - Scale ELSE r1
        r3 == IF Contains(feedback_lower, KwStrengths) THEN r2 + Half ELSE r2
        r4 == IF Contains(feedback_lower, KwImprovement) THEN r3 - Half ELSE r3
    IN  r4

_get_reward_from_feedback(feedback) ==
    LET feedback_lower == Lower(feedback)
        r1 == IF Contains(feedback_lower, KwCorrect) /\ ~Contains(feedback_lower, KwIncorrect)
              THEN Scale ELSE 0
        r2 == IF Contains(feedback_lower, KwIncorrect) THEN r1 - Scale ELSE r1
        r3 == IF Contains(feedback_lower, KwStrengths) THEN r2 + Half ELSE r2
        r4 == IF Contains(feedback_lower, KwImprovement) THEN r3 - Half ELSE r3
    IN  r4

(***************************************************************************)
(* QLearningFramework.  A q_table is a function whose domain is the set of *)
(* (state, action) keys it holds.                                          *)
(***************************************************************************)
EmptyTable == [k \in {} |-> 0]

_get_q_value(q, state, action) ==
    IF <<state, action>> \in DOMAIN q THEN q[<<state, action>>] ELSE 0

\* the first action of maximum value taken, the ties not kept
best_actions_first(q, state) ==
    LET max_q == SetMax({_get_q_value(q, state, a) : a \in Range(actions)})
        first == CHOOSE k \in 1..Len(actions) :
                    /\ _get_q_value(q, state, actions[k]) = max_q
                    /\ \A j \in 1..(k - 1) : _get_q_value(q, state, actions[j]) # max_q
    IN  {actions[first]}

\* the actions of maximum value at state (the exploitation branch)
best_actions(q, state) ==
    LET max_q == SetMax({_get_q_value(q, state, a) : a \in Range(actions)})
    IN  {a \in Range(actions) : _get_q_value(q, state, a) = max_q}

\* the comparison turned round
Explores_flipped(u, eps) == u > eps

\* the comparison made inclusive
Explores_inclusive(u, eps) == u <= eps

\* the branch choose_action takes for a draw u of random.uniform(0, 1)
Explores(u, eps) == u < eps

\* every action choose_action(state) can return when the draw is u
choose_action_drawn(q, eps, state, u) ==
    IF Explores(u, eps) THEN Range(actions) ELSE best_actions(q, state)

\* every action choose_action(state) can return
choose_action(q, eps, state) ==
    UNION {choose_action_drawn(q, eps, state, u) : u \in UniformDraws}

\* the maximum taken whatever next_state is
max_next_q_always(q, next_state) ==
    SetMax({_get_q_value(q, next_state, a) : a \in Range(actions)})

max_next_q(q, next_state) ==
    IF Truthy(next_state) /\ Len(actions) > 0
    THEN SetMax({_get_q_value(q, next_state, a) : a \in Range(actions)})
    ELSE 0

\* the future value not discounted
new_q_undiscounted(q, state, action, rwd, next_state) ==
    LET current_q == _get_q_value(q, state, action)
        target    == rwd + max_next_q(q, next_state)
    IN  current_q + AlphaNum * ((target - current_q) \div AlphaDen)

new_q(q, state, action, rwd, next_state) ==
    LET current_q == _get_q_value(q, state, action)
        target    == rwd + GammaNum * (max_next_q(q, next_state) \div GammaDen)
    IN  current_q + AlphaNum * ((target - current_q) \div AlphaDen)

\* the new value computed and not stored
update_q_value_unstored(q, state, action, rwd, next_state) == q

\* the table replaced by one that holds the new entry only
update_q_value_fresh(q, state, action, rwd, next_state) ==
    [k \in {<<state, action>>} |-> new_q(q, state, action, rwd, next_state)]

\* reading the values of next_state leaves entries of 0.0 behind
update_q_value_touching_next(q, state, action, rwd, next_state) ==
    [k \in DOMAIN q \cup {<<state, action>>}
            \cup (IF Truthy(next_state)
                  THEN {<<next_state, a>> : a \in Range(actions)} ELSE {}) |->
        IF k = <<state, action>>
        THEN new_q(q, state, action, rwd, next_state)
        ELSE IF k \in DOMAIN q THEN q[k] ELSE 0]

\* the q_table after update_q_value(state, action, reward, next_state)
update_q_value(q, state, action, rwd, next_state) ==
    [k \in DOMAIN q \cup {<<state, action>>} |->
        IF k = <<state, action>>
        THEN new_q(q, state, action, rwd, next_state)
        ELSE q[k]]

(***************************************************************************)
(* The decisions of run_interaction_round and run_simulation.              *)
(***************************************************************************)
\* the check of the student's response left out
SolveFailed_unchecked(text) == FALSE

\* the check of the feedback left out
EvaluateFailed_unchecked(text) == FALSE

\* the check of the problem left out
GenerateFailed_unchecked(text) == FALSE

\* "Error" in problem
GenerateFailed(text) == Contains(text, ErrorMarker)

\* "Error" in student_response
SolveFailed(text) == Contains(text, ErrorMarker)

\* "Error" in teacher_feedback
EvaluateFailed(text) == Contains(text, ErrorMarker)

\* a failed solve_problem goes on to the evaluation
AfterSolve_goes_on(text) == "evaluate"

\* process_feedback left out of the round
AfterEvaluate_skips_feedback(text) == IF EvaluateFailed(text) THEN "returned" ELSE "update"

\* where the round goes after each collaborator call: on, or return {}
AfterGenerate(text) == IF GenerateFailed(text) THEN "returned" ELSE "choose"

AfterSolve(text) == IF SolveFailed(text) THEN "returned" ELSE "evaluate"

AfterEvaluate(text) == IF EvaluateFailed(text) THEN "returned" ELSE "feedback"

\* the loop index sent as the round number
ProgressEvent_zero_based(k, total, delivered) ==
    [current_round |-> k, total_rounds |-> total, delivered |-> delivered]

\* the 'simulation_progress' event of round index k, and whether emit returned
ProgressEvent(k, total, delivered) ==
    [current_round |-> k + 1, total_rounds |-> total, delivered |-> delivered]

\* what socketio.emit can do: return (TRUE) or raise (FALSE); without an
\* observer nothing is emitted
EmitOutcomes(observer) == IF observer THEN {TRUE, FALSE} ELSE {TRUE}

\* the round given up when the reflection carries the error marker
AfterFeedback_checked(reflection) ==
    IF Contains(reflection, ErrorMarker) THEN "returned" ELSE "update"

\* process_feedback returns None and what its reflection yielded is dropped:
\* the round goes on to the reward and the update
AfterFeedback(reflection) == "update"

\* the modulo evaluated in the first round too
GrowthRaises_from_first_round(k, interval) == interval \div 2 = 0

\* i % (evolution_interval // 2) raises ZeroDivisionError
GrowthRaises(k, interval) == k > 0 /\ interval \div 2 = 0

\* the interval itself taken as the cadence of the growth
GrowthDue_no_halving(k, interval) == k > 0 /\ k % interval = 0

\* i > 0 and i % (evolution_interval // 2) == 0
GrowthDue(k, interval) == k > 0 /\ k % (interval \div 2) = 0

\* where run_simulation goes after the progress event of round index k
AfterEmit(delivered, k, interval) ==
    IF ~delivered THEN "raised"
    ELSE IF GrowthRaises(k, interval) THEN "raised"
    ELSE IF GrowthDue(k, interval) THEN "synthesize"
    ELSE "select"

\* topics[-1] if topics else "general knowledge"
LastTopic(tps) == IF Len(tps) > 0 THEN tps[Len(tps)] ELSE GeneralKnowledge

\* n / d (d > 0) rounded to the nearest integer, a tie going to the even one:
\* how a float that is exactly between two values is formatted
RoundHalfEven(n, d) ==
    LET q == n \div d
        r == n % d
    IN  IF 2 * r < d THEN q
        ELSE IF 2 * r > d THEN q + 1
        ELSE IF q % 2 = 0 THEN q ELSE q + 1

\* a sum of rewards in hundredths
Hundredths(x) == x \div (Scale \div 100)

\* the text "No recent performance data."
NoPerformanceData == [data |-> FALSE, rounds |-> 0, average |-> 0]

\* the summary built from the total of the window
student_performance_summary_total(history) ==
    IF history # <<>>
    THEN [data    |-> TRUE,
          rounds  |-> Len(history),
          average |-> RoundHalfEven(Hundredths(Sum(history)), 1)]
    ELSE NoPerformanceData

\* f"Student's average reward over last {len(rewards_history)} rounds was
\* {sum(rewards_history)/len(rewards_history):.2f}" if rewards_history else
\* "No recent performance data."; average is the formatted number, in hundredths
student_performance_summary(history) ==
    IF history # <<>>
    THEN [data    |-> TRUE,
          rounds  |-> Len(history),
          average |-> RoundHalfEven(Hundredths(Sum(history)), Len(history))]
    ELSE NoPerformanceData

\* the test of the error marker left out
ShouldAppend_no_error_test(new_topic, tps) ==
    Truthy(new_topic) /\ new_topic \notin Range(tps)

\* the membership test left out
ShouldAppend_no_membership(new_topic, tps) ==
    Truthy(new_topic) /\ ~Contains(new_topic, ErrorMarker)

\* new_topic and "Error" not in new_topic and new_topic not in topics
ShouldAppend(new_topic, tps) ==
    /\ Truthy(new_topic)
    /\ ~Contains(new_topic, ErrorMarker)
    /\ new_topic \notin Range(tps)

\* the curriculum replaced by the new topic
GrownTopics_replaces(new_topic, tps) ==
    IF ShouldAppend(new_topic, tps) THEN <<new_topic>> ELSE tps

\* the curriculum after the growth step received new_topic
GrownTopics(new_topic, tps) ==
    IF ShouldAppend(new_topic, tps) THEN Append(tps, new_topic) ELSE tps

\* the evolution point taken at i instead of i + 1
EvolutionDue_off_by_one(k, interval, history) ==
    k % interval = 0 /\ Len(history) > 0

\* (i + 1) % evolution_interval == 0 and len(rewards_history) > 0
EvolutionDue(k, interval, history) ==
    (k + 1) % interval = 0 /\ Len(history) > 0

\* the sum of the window passed instead of its mean
avg_reward_sum(history) == Quotient(Sum(history), 1)

\* sum(rewards_history) / len(rewards_history)
avg_reward(history) == Mean(history)

\* the window kept over the evolution point
WindowAfterEvolution_kept(history) == history

\* rewards_history = [] after the evolve calls
WindowAfterEvolution(history) == <<>>

\* the transition taken as terminal: no next state
next_state_for_q_learning_none(topic) == <<>>

current_state_for_q_learning(topic) == topic

next_state_for_q_learning(topic) == topic

\* a dict is true when it is not empty; {} is the function of empty domain
EmptyDict == <<>>

DictTruthy(d) == DOMAIN d # {}

\* the chosen strategy handed to the student with the problem
SolveArgs_with_strategy(prob, action) == <<prob, action>>

\* the arguments of self.student.solve_problem(problem): the action chosen is
\* not among them
SolveArgs(prob, action) == <<prob>>

\* the problem recorded where the student's response belongs
RoundRecord_response_mixed_up(number, topic, prob, action, response, feedback, rwd) ==
    [round_number     |-> number,
     topic            |-> topic,
     difficulty       |-> "medium",
     problem          |-> prob,
     student_action   |-> action,
     student_response |-> prob,
     teacher_feedback |-> feedback,
     reward           |-> rwd]

\* the record numbered with the loop index
RoundRecord_zero_based(number, topic, prob, action, response, feedback, rwd) ==
    [round_number     |-> number - 1,
     topic            |-> topic,
     difficulty       |-> "medium",
     problem          |-> prob,
     student_action   |-> action,
     student_response |-> response,
     teacher_feedback |-> feedback,
     reward           |-> rwd]

\* round_data = {...}: the record of a successful round
RoundRecord(number, topic, prob, action, response, feedback, rwd) ==
    [round_number     |-> number,
     topic            |-> topic,
     difficulty       |-> "medium",
     problem          |-> prob,
     student_action   |-> action,
     student_response |-> response,
     teacher_feedback |-> feedback,
     reward           |-> rwd]

\* the loop left at the first round that returned {}
AfterRound_stops_on_failure(rd) == IF DictTruthy(rd) THEN "evolve" ELSE "done"

\* where run_simulation goes when run_interaction_round has returned rd: on to
\* the evolution point of the round, whatever rd is
AfterRound(rd) == "evolve"

\* the value of "Average Reward" and of the other floats of an empty summary
ZeroFloat == Quotient(0, 1)

\* the rewards summed and not divided by their number
get_summary_statistics_undivided(results) ==
    IF Len(results) = 0
    THEN [total_rounds |-> 0, average_reward |-> ZeroFloat, min_reward |-> 0,
          max_reward |-> 0, unique_topics_covered |-> {}]
    ELSE LET rewards == [k \in 1..Len(results) |-> results[k].reward]
             topics_covered == [k \in 1..Len(results) |-> results[k].topic]
         IN  [total_rounds |-> Len(results),
              average_reward |-> Quotient(Sum(rewards), 1),
              min_reward |-> SetMin(Range(rewards)),
              max_reward |-> SetMax(Range(rewards)),
              unique_topics_covered |-> Range(topics_covered)]

\* LearningEnvironment.get_summary_statistics; list(set(...)) is a list in
\* no particular order, modelled as the set
get_summary_statistics(results) ==
    IF Len(results) = 0
    THEN [total_rounds |-> 0, average_reward |-> ZeroFloat, min_reward |-> 0,
          max_reward |-> 0, unique_topics_covered |-> {}]
    ELSE LET rewards == [k \in 1..Len(results) |-> results[k].reward]
             topics_covered == [k \in 1..Len(results) |-> results[k].topic]
         IN  [total_rounds |-> Len(results),
              average_reward |-> Mean(rewards),
              min_reward |-> SetMin(Range(rewards)),
              max_reward |-> SetMax(Range(rewards)),
              unique_topics_covered |-> Range(topics_covered)]

vars == <<pc, num_rounds, evolution_interval, socketio, progress, topics, i, current_round_number,
          rewards_history, simulation_results, q_table, epsilon, current_topic,
          problem, student_conceptual_action, student_response, teacher_feedback,
          reward, round_data, summary, calls, synthLog, genLog, lastUpdate, evolveLog,
          atRoundStart, simulation_running, task_pc, emitted, events, threads,
          log_queue, lines_put, connect_pc, emitter_msg, taken, reruns, earlier_results>>

\* the state of the handlers and threads of app.py, and of a further run
appVars == <<events, threads, log_queue, lines_put, connect_pc, emitter_msg, taken,
             reruns, earlier_results>>

\* the state of app.py's simulation task
taskVars == <<simulation_running, task_pc, emitted>>

\* no simulation task has been started
TaskIdle ==
    /\ simulation_running = FALSE
    /\ task_pc = "idle"
    /\ emitted = <<>>
    /\ events = <<>>
    /\ threads = <<>>
    /\ log_queue = <<>>
    /\ lines_put = 0
    /\ connect_pc = "idle"
    /\ emitter_msg = 0
    /\ taken = <<>>
    /\ reruns = 0
    /\ earlier_results = <<>>

runArgs == <<num_rounds, evolution_interval, socketio, epsilon>>

roundLocals == <<current_topic, problem, student_conceptual_action,
                 student_response, teacher_feedback, reward>>

Call(op, args, result) == [op |-> op, args |-> args, result |-> result]

\* a call of a wrapper, with what the client returned to it
ClientCall(op, args, response, result) ==
    [op |-> op, args |-> args, client |-> response, result |-> result]

Snapshot == [q_table |-> q_table, results |-> simulation_results,
             window |-> rewards_history, topics |-> topics]

NoText == <<>>

NoAction == ""

\* no update_q_value has been made
NoUpdate == <<>>

\* no progress event has been emitted
NoProgress == <<>>

\* summary is not bound before the loop is over
NoSummary == <<>>

\* LearningEnvironment.__init__ and QLearningFramework.__init__
Init ==
    /\ pc = "idle"
    /\ num_rounds = 0
    /\ evolution_interval = 1
    /\ socketio = FALSE
    /\ progress = NoProgress
    /\ topics = <<>>
    /\ i = 0
    /\ current_round_number = 0
    /\ rewards_history = <<>>
    /\ simulation_results = <<>>
    /\ q_table = EmptyTable
    /\ epsilon = AppEpsilon
    /\ current_topic = NoText
    /\ problem = NoText
    /\ student_conceptual_action = NoAction
    /\ student_response = NoText
    /\ teacher_feedback = NoText
    /\ reward = 0
    /\ round_data = EmptyDict
    /\ summary = NoSummary
    /\ calls = <<>>
    /\ synthLog = <<>>
    /\ genLog = <<>>
    /\ lastUpdate = NoUpdate
    /\ evolveLog = <<>>
    /\ atRoundStart = [q_table |-> EmptyTable, results |-> <<>>,
                       window |-> <<>>, topics |-> <<>>]
    /\ TaskIdle

\* run_simulation(num_rounds, topics, evolution_interval, socketio): entry
StartSimulation ==
    /\ pc = "idle"
    /\ \E n \in 0..MaxRounds, tps \in InitialTopicLists, interval \in 1..MaxInterval,
          observer \in BOOLEAN :
        /\ num_rounds' = n
        /\ topics' = tps
        /\ evolution_interval' = interval
        /\ socketio' = observer
        /\ atRoundStart' = [Snapshot EXCEPT !.topics = tps]
    /\ rewards_history' = <<>>
    /\ i' = 0
    /\ pc' = "loop"
    /\ UNCHANGED <<appVars, taskVars, current_round_number, simulation_results, q_table, epsilon, progress,
                   roundLocals, round_data, summary, calls, synthLog, genLog, lastUpdate,
                   evolveLog>>

\* the head of the loop: the round number, the progress event (socketio.emit
\* returns or raises, and nothing catches what it raises) and the growth
\* condition
BeginRound ==
    /\ pc = "loop"
    /\ i < num_rounds
    /\ current_round_number' = i + 1
    /\ calls' = <<>>
    /\ atRoundStart' = Snapshot
    /\ \E delivered \in EmitOutcomes(socketio) :
        /\ progress' = IF socketio
                       THEN ProgressEvent(i, num_rounds, delivered)
                       ELSE progress
        /\ pc' = AfterEmit(delivered, i, evolution_interval)
    /\ UNCHANGED <<appVars, taskVars, runArgs, genLog, lastUpdate, summary, topics, i, rewards_history, simulation_results, q_table,
                   roundLocals, round_data, synthLog, evolveLog>>

\* teacher.synthesize_new_topic and the growth of the curriculum
SynthesizeTopic ==
    /\ pc = "synthesize"
    /\ \E new_topic \in SynthesizedTexts :
        /\ calls' = Append(calls, Call("synthesize_new_topic",
                                       <<LastTopic(topics),
                                         student_performance_summary(rewards_history)>>,
                                       new_topic))
        /\ topics' = GrownTopics(new_topic, topics)
    /\ synthLog' = Append(synthLog, i)
    /\ pc' = "select"
    /\ UNCHANGED <<appVars, taskVars, runArgs, genLog, lastUpdate, summary, progress, i, current_round_number, rewards_history, simulation_results,
                   q_table, roundLocals, round_data, evolveLog, atRoundStart>>

\* current_topic = random.choice(topics); IndexError on an empty list
SelectTopic ==
    /\ pc = "select"
    /\ IF Len(topics) = 0
       THEN /\ pc' = "raised"
            /\ UNCHANGED <<current_topic, calls>>
       ELSE /\ \E k \in 1..Len(topics) :
                /\ current_topic' = topics[k]
                /\ calls' = Append(calls, Call("random.choice", <<topics>>, topics[k]))
            /\ pc' = "generate"
    /\ UNCHANGED <<appVars, taskVars, runArgs, genLog, lastUpdate, summary, progress, topics, i, current_round_number, rewards_history,
                   simulation_results, q_table, problem, student_conceptual_action,
                   student_response, teacher_feedback, reward, round_data,
                   synthLog, evolveLog, atRoundStart>>

\* Step 1: teacher.generate_learning_material(topic, difficulty)
GenerateProblem ==
    /\ pc = "generate"
    /\ \E response \in ProblemResponses :
       LET text == generate_learning_material(response) IN
        /\ calls' = Append(calls, ClientCall("generate_learning_material",
                                             <<current_topic, "medium">>, response, text))
        /\ problem' = text
        /\ pc' = AfterGenerate(text)
        /\ round_data' = IF AfterGenerate(text) = "returned" THEN EmptyDict ELSE round_data
    /\ genLog' = Append(genLog, i)
    /\ UNCHANGED <<appVars, taskVars, runArgs, lastUpdate, summary, progress, topics, i, current_round_number, rewards_history,
                   simulation_results, q_table, current_topic, student_conceptual_action,
                   student_response, teacher_feedback, reward, synthLog, evolveLog,
                   atRoundStart>>

\* Step 2: q_learner.choose_action(current_state_for_q_learning)
ChooseAction ==
    /\ pc = "choose"
    /\ \E a \in choose_action(q_table, epsilon, current_state_for_q_learning(current_topic)) :
        /\ student_conceptual_action' = a
        /\ calls' = Append(calls, Call("choose_action",
                               <<current_state_for_q_learning(current_topic)>>, a))
    /\ pc' = "solve"
    /\ UNCHANGED <<appVars, taskVars, runArgs, genLog, lastUpdate, summary, progress, topics, i, current_round_number, rewards_history,
                   simulation_results, q_table, current_topic, problem, student_response,
                   teacher_feedback, reward, round_data, synthLog, evolveLog, atRoundStart>>

\* Step 3: student.solve_problem(problem)
SolveProblem ==
    /\ pc = "solve"
    /\ \E response \in SolveResponses :
       LET text == solve_problem(response) IN
        /\ calls' = Append(calls, ClientCall("solve_problem",
                                             SolveArgs(problem, student_conceptual_action),
                                             response, text))
        /\ student_response' = text
        /\ pc' = AfterSolve(text)
        /\ round_data' = IF AfterSolve(text) = "returned" THEN EmptyDict ELSE round_data
    /\ UNCHANGED <<appVars, taskVars, runArgs, genLog, lastUpdate, summary, progress, topics, i, current_round_number, rewards_history,
                   simulation_results, q_table, current_topic, problem,
                   student_conceptual_action, teacher_feedback, reward,
                   synthLog, evolveLog, atRoundStart>>

\* Step 4: teacher.evaluate_student_response(problem, student_response)
Evaluate ==
    /\ pc = "evaluate"
    /\ \E response \in FeedbackResponses :
       LET text == evaluate_student_response(response) IN
        /\ calls' = Append(calls, ClientCall("evaluate_student_response",
                                             <<problem, student_response>>, response, text))
        /\ teacher_feedback' = text
        /\ pc' = AfterEvaluate(text)
        /\ round_data' = IF AfterEvaluate(text) = "returned" THEN EmptyDict ELSE round_data
    /\ UNCHANGED <<appVars, taskVars, runArgs, genLog, lastUpdate, summary, progress, topics, i, current_round_number, rewards_history,
                   simulation_results, q_table, current_topic, problem,
                   student_conceptual_action, student_response, reward,
                   synthLog, evolveLog, atRoundStart>>

\* Step 5: student.process_feedback(problem, student_response, teacher_feedback)
ProcessFeedback ==
    /\ pc = "feedback"
    /\ \E reflection \in ReflectionTexts :
        /\ calls' = Append(calls,
                        [op         |-> "process_feedback",
                         args       |-> <<problem, student_response, teacher_feedback>>,
                         result     |-> NoText,
                         reflection |-> reflection])
        /\ pc' = AfterFeedback(reflection)
        /\ round_data' = IF AfterFeedback(reflection) = "returned"
                         THEN EmptyDict ELSE round_data
    /\ UNCHANGED <<appVars, taskVars, runArgs, genLog, lastUpdate, summary, progress, topics, i,
                   current_round_number, rewards_history, simulation_results, q_table,
                   roundLocals, synthLog, evolveLog, atRoundStart>>

\* Step 6: the reward and q_learner.update_q_value
UpdateQ ==
    /\ pc = "update"
    /\ LET rwd == _get_reward_from_feedback(teacher_feedback)
           s   == current_state_for_q_learning(current_topic)
           ns  == next_state_for_q_learning(current_topic)
       IN  /\ reward' = rwd
           /\ q_table' = update_q_value(q_table, s, student_conceptual_action, rwd, ns)
           /\ calls' = Append(calls, Call("update_q_value",
                                  <<s, student_conceptual_action, rwd, ns>>, NoText))
           /\ lastUpdate' = [round |-> current_round_number,
                              key   |-> <<s, student_conceptual_action>>,
                              value |-> new_q(q_table, s, student_conceptual_action, rwd, ns)]
    /\ pc' = "record"
    /\ UNCHANGED <<appVars, taskVars, runArgs, genLog, summary, progress, topics, i, current_round_number, rewards_history,
                   simulation_results, current_topic, problem, student_conceptual_action,
                   student_response, teacher_feedback, round_data, synthLog, evolveLog,
                   atRoundStart>>

\* round_data, self.simulation_results.append(round_data), return round_data
AppendRecord ==
    /\ pc = "record"
    /\ LET rec == RoundRecord(current_round_number, current_topic, problem,
                              student_conceptual_action, student_response,
                              teacher_feedback, reward)
       IN  /\ simulation_results' = Append(simulation_results, rec)
           /\ round_data' = rec
           /\ calls' = Append(calls, Call("append", <<rec.round_number>>, NoText))
    /\ pc' = "returned"
    /\ UNCHANGED <<appVars, taskVars, runArgs, genLog, lastUpdate, summary, progress, topics, i, current_round_number, rewards_history, q_table,
                   roundLocals, synthLog, evolveLog, atRoundStart>>

\* back in run_simulation: if round_data: rewards_history.append(round_data["reward"])
CollectReward ==
    /\ pc = "returned"
    /\ rewards_history' = IF DictTruthy(round_data)
                          THEN Append(rewards_history, round_data.reward)
                          ELSE rewards_history
    /\ current_topic' = NoText
    /\ problem' = NoText
    /\ student_conceptual_action' = NoAction
    /\ student_response' = NoText
    /\ teacher_feedback' = NoText
    /\ reward' = 0
    /\ pc' = AfterRound(round_data)
    /\ UNCHANGED <<appVars, taskVars, runArgs, genLog, lastUpdate, summary, progress, topics, i, current_round_number, simulation_results, q_table,
                   round_data, calls, synthLog, evolveLog, atRoundStart>>

\* the evolution point at the end of round i, and the next i
EvolutionCheck ==
    /\ pc = "evolve"
    /\ IF EvolutionDue(i, evolution_interval, rewards_history)
       THEN /\ evolveLog' = evolveLog \o
                   <<[who |-> "teacher", value |-> avg_reward(rewards_history), round |-> i],
                     [who |-> "student", value |-> avg_reward(rewards_history), round |-> i]>>
            /\ rewards_history' = WindowAfterEvolution(rewards_history)
       ELSE UNCHANGED <<evolveLog, rewards_history>>
    /\ i' = i + 1
    /\ pc' = "loop"
    /\ UNCHANGED <<appVars, taskVars, runArgs, genLog, lastUpdate, summary, progress, topics, current_round_number, simulation_results, q_table,
                   roundLocals, round_data, calls, synthLog, atRoundStart>>

\* the loop is over: the summary, and run_simulation returns self.simulation_results
FinishSimulation ==
    /\ pc = "loop"
    /\ i >= num_rounds
    /\ summary' = get_summary_statistics(simulation_results)
    /\ pc' = "done"
    /\ UNCHANGED <<appVars, taskVars, runArgs, genLog, lastUpdate, progress, topics, i, current_round_number, rewards_history,
                   simulation_results, q_table, roundLocals, round_data, calls,
                   synthLog, evolveLog, atRoundStart>>

Next ==
    \/ StartSimulation
    \/ BeginRound
    \/ SynthesizeTopic
    \/ SelectTopic
    \/ GenerateProblem
    \/ ChooseAction
    \/ SolveProblem
    \/ Evaluate
    \/ ProcessFeedback
    \/ UpdateQ
    \/ AppendRecord
    \/ CollectReward
    \/ EvolutionCheck
    \/ FinishSimulation

Spec == Init /\ [][Next]_vars

\* the state of an environment that has run nothing
runIdle == <<num_rounds, evolution_interval, socketio, progress, topics, i, current_round_number,
             rewards_history, simulation_results, current_topic, problem,
             student_conceptual_action, student_response, round_data, summary,
             synthLog, genLog, lastUpdate, evolveLog, atRoundStart,
             simulation_running, task_pc, emitted, appVars>>

RunIdle ==
    /\ num_rounds = 0
    /\ evolution_interval = 1
    /\ socketio = FALSE
    /\ progress = NoProgress
    /\ topics = <<>>
    /\ i = 0
    /\ current_round_number = 0
    /\ rewards_history = <<>>
    /\ simulation_results = <<>>
    /\ current_topic = NoText
    /\ problem = NoText
    /\ student_conceptual_action = NoAction
    /\ student_response = NoText
    /\ round_data = EmptyDict
    /\ summary = NoSummary
    /\ synthLog = <<>>
    /\ genLog = <<>>
    /\ lastUpdate = NoUpdate
    /\ evolveLog = <<>>
    /\ atRoundStart = [q_table |-> EmptyTable, results |-> <<>>,
                       window |-> <<>>, topics |-> <<>>]
    /\ TaskIdle

(***************************************************************************)
(* The policy on its own: a QLearningFramework and a sequence of           *)
(* choose_action and update_q_value calls, as                              *)
(* tests/test_q_learning_framework.py makes them.  calls holds the last    *)
(* call, i the number of updates made.                                     *)
(***************************************************************************)
\* the table the test sets by hand: a best value of 2.0 at the topic, and a
\* value at the empty state
PresetTable ==
    [k \in {<<TopicRL, actions[2]>>, <<<<>>, actions[1]>>} |->
        IF k[1] = TopicRL THEN 2 * Scale ELSE Scale]

InitialTables == {EmptyTable, PresetTable}

policyIdle == <<pc, num_rounds, evolution_interval, socketio, progress, topics, current_round_number,
                rewards_history, simulation_results, current_topic, problem,
                student_conceptual_action, student_response, teacher_feedback,
                reward, round_data, summary, synthLog, genLog, lastUpdate, evolveLog,
                atRoundStart, simulation_running, task_pc, emitted, appVars>>

InitPolicy ==
    /\ RunIdle
    /\ pc = "policy"
    /\ teacher_feedback = NoText
    /\ reward = 0
    /\ q_table \in InitialTables
    /\ epsilon \in PolicyEpsilons
    /\ calls = <<>>

\* action = q_learner.choose_action(state), the draw of random.uniform being u
PolicyChoose ==
    /\ pc = "policy"
    /\ \E state \in PolicyStates, u \in UniformDraws :
         \E a \in choose_action_drawn(q_table, epsilon, state, u) :
            calls' = <<Call("choose_action", <<state, u>>, a)>>
    /\ UNCHANGED <<q_table, epsilon, i, policyIdle>>

\* q_learner.update_q_value(state, action, reward, next_state)
PolicyUpdate ==
    /\ pc = "policy"
    /\ i < MaxUpdates
    /\ \E state \in PolicyStates, a \in Range(actions), rwd \in PolicyRewards,
          next_state \in PolicyStates :
            /\ q_table' = update_q_value(q_table, state, a, rwd, next_state)
            /\ calls' = <<Call("update_q_value", <<state, a, rwd, next_state>>, NoText)>>
    /\ i' = i + 1
    /\ UNCHANGED <<epsilon, policyIdle>>

NextPolicy == PolicyChoose \/ PolicyUpdate

SpecPolicy == InitPolicy /\ [][NextPolicy]_vars

(***************************************************************************)
(* The reward function on its own: _get_reward_from_feedback applied to    *)
(* the feedback texts, as tests/test_learning_environment.py applies it to *)
(* an environment that runs no simulation.                                 *)
(***************************************************************************)
InitReward ==
    /\ RunIdle
    /\ pc = "extract"
    /\ teacher_feedback \in FeedbackInputs
    /\ reward = 0
    /\ q_table = EmptyTable
    /\ epsilon = AppEpsilon
    /\ calls = <<>>

\* reward = self._get_reward_from_feedback(feedback)
ExtractReward ==
    /\ pc = "extract"
    /\ Len(calls) < MaxExtractions
    /\ LET rwd == _get_reward_from_feedback(teacher_feedback)
       IN  /\ reward' = rwd
           /\ calls' = Append(calls, Call("_get_reward_from_feedback",
                                          <<teacher_feedback>>, rwd))
    /\ UNCHANGED <<pc, teacher_feedback, q_table, epsilon, runIdle>>

NextReward == ExtractReward

SpecReward == InitReward /\ [][NextReward]_vars

(***************************************************************************)
(* The simulation task of app.py: run_simulation_task around one           *)
(* run_simulation, started on a thread of its own.  Every event goes       *)
(* through socketio.emit, which returns or raises.                         *)
(***************************************************************************)
\* socketio.emit('simulation_status', {'status': status, ...})
StatusEvent(status) == [event |-> "simulation_status", payload |-> status]

\* socketio.emit('simulation_results', {'summary': ..., 'rounds': ...})
ResultsEvent(results) ==
    [event   |-> "simulation_results",
     payload |-> [summary |-> get_summary_statistics(results), rounds |-> results]]

\* if not ollama_client_instance.is_ollama_running(): ... return
AfterOllamaCheck(running) == IF running THEN "announce" ELSE "abort"

\* an emit inside the try block: what it raises is caught by the except clause
AfterTaskEmit(delivered, next) == IF delivered THEN next ELSE "except"

\* the emit of the except clause: what it raises leaves the task, through
\* the finally clause
AfterHandlerEmit(delivered) == IF delivered THEN "finally" ELSE "finally_raising"

\* the task is left normally, or by the exception the finally clause lets through
AfterFinally(at) == IF at = "finally_raising" THEN "escaped" ELSE "ended"

\* simulation_running = True
TaskBegin ==
    /\ task_pc = "idle"
    /\ pc = "idle"
    /\ simulation_running' = TRUE
    /\ task_pc' = "check"
    /\ UNCHANGED <<appVars, emitted, runArgs, genLog, lastUpdate, summary, progress, topics, i,
                   current_round_number, rewards_history, simulation_results, q_table,
                   roundLocals, round_data, calls, synthLog, evolveLog, atRoundStart, pc>>

\* OllamaClient(...).is_ollama_running()
TaskCheckOllama ==
    /\ task_pc = "check"
    /\ \E running \in BOOLEAN : task_pc' = AfterOllamaCheck(running)
    /\ UNCHANGED <<appVars, simulation_running, emitted, runArgs, genLog, lastUpdate, summary,
                   progress, topics, i, current_round_number, rewards_history,
                   simulation_results, q_table, roundLocals, round_data, calls, synthLog,
                   evolveLog, atRoundStart, pc>>

\* the server is not running: the error status, simulation_running = False, return
TaskAbort ==
    /\ task_pc = "abort"
    /\ \E delivered \in EmitOutcomes(TRUE) :
        /\ emitted' = IF delivered THEN Append(emitted, StatusEvent("error")) ELSE emitted
        /\ simulation_running' = IF delivered THEN FALSE ELSE simulation_running
        /\ task_pc' = AfterTaskEmit(delivered, "finally")
    /\ UNCHANGED <<appVars, runArgs, genLog, lastUpdate, summary, progress, topics, i,
                   current_round_number, rewards_history, simulation_results, q_table,
                   roundLocals, round_data, calls, synthLog, evolveLog, atRoundStart, pc>>

\* the agents, the policy and the environment are built; the 'running' status
TaskAnnounce ==
    /\ task_pc = "announce"
    /\ \E delivered \in EmitOutcomes(TRUE) :
        /\ emitted' = IF delivered THEN Append(emitted, StatusEvent("running")) ELSE emitted
        /\ task_pc' = AfterTaskEmit(delivered, "run")
    /\ UNCHANGED <<appVars, simulation_running, runArgs, genLog, lastUpdate, summary, progress,
                   topics, i, current_round_number, rewards_history, simulation_results,
                   q_table, roundLocals, round_data, calls, synthLog, evolveLog,
                   atRoundStart, pc>>

\* env.run_simulation(num_rounds, topics, evolution_interval, socketio=socketio)
TaskRun ==
    /\ task_pc = "run"
    /\ StartSimulation
    /\ socketio' = TRUE

\* run_simulation raised: control passes to the except clause
TaskRunRaised ==
    /\ task_pc = "run"
    /\ pc = "raised"
    /\ task_pc' = "except"
    /\ UNCHANGED <<appVars, simulation_running, emitted, runArgs, genLog, lastUpdate, summary,
                   progress, topics, i, current_round_number, rewards_history,
                   simulation_results, q_table, roundLocals, round_data, calls, synthLog,
                   evolveLog, atRoundStart, pc>>

\* run_simulation returned: the 'completed' status
TaskCompleted ==
    /\ task_pc = "run"
    /\ pc = "done"
    /\ \E delivered \in EmitOutcomes(TRUE) :
        /\ emitted' = IF delivered THEN Append(emitted, StatusEvent("completed")) ELSE emitted
        /\ task_pc' = AfterTaskEmit(delivered, "results")
    /\ UNCHANGED <<appVars, simulation_running, runArgs, genLog, lastUpdate, summary, progress,
                   topics, i, current_round_number, rewards_history, simulation_results,
                   q_table, roundLocals, round_data, calls, synthLog, evolveLog,
                   atRoundStart, pc>>

\* the 'simulation_results' event: the summary and the records
TaskResults ==
    /\ task_pc = "results"
    /\ \E delivered \in EmitOutcomes(TRUE) :
        /\ emitted' = IF delivered
                      THEN Append(emitted, ResultsEvent(simulation_results))
                      ELSE emitted
        /\ task_pc' = AfterTaskEmit(delivered, "finally")
    /\ UNCHANGED <<appVars, simulation_running, runArgs, genLog, lastUpdate, summary, progress,
                   topics, i, current_round_number, rewards_history, simulation_results,
                   q_table, roundLocals, round_data, calls, synthLog, evolveLog,
                   atRoundStart, pc>>

\* except Exception as e: the error status
TaskExcept ==
    /\ task_pc = "except"
    /\ \E delivered \in EmitOutcomes(TRUE) :
        /\ emitted' = IF delivered THEN Append(emitted, StatusEvent("error")) ELSE emitted
        /\ task_pc' = AfterHandlerEmit(delivered)
    /\ UNCHANGED <<appVars, simulation_running, runArgs, genLog, lastUpdate, summary, progress,
                   topics, i, current_round_number, rewards_history, simulation_results,
                   q_table, roundLocals, round_data, calls, synthLog, evolveLog,
                   atRoundStart, pc>>

\* finally: simulation_running = False
TaskFinally ==
    /\ task_pc \in {"finally", "finally_raising"}
    /\ simulation_running' = FALSE
    /\ task_pc' = AfterFinally(task_pc)
    /\ UNCHANGED <<appVars, emitted, runArgs, genLog, lastUpdate, summary, progress, topics, i,
                   current_round_number, rewards_history, simulation_results, q_table,
                   roundLocals, round_data, calls, synthLog, evolveLog, atRoundStart, pc>>

NextTask ==
    \/ TaskBegin
    \/ TaskCheckOllama
    \/ TaskAbort
    \/ TaskAnnounce
    \/ TaskRun
    \/ BeginRound
    \/ SynthesizeTopic
    \/ SelectTopic
    \/ GenerateProblem
    \/ ChooseAction
    \/ SolveProblem
    \/ Evaluate
    \/ ProcessFeedback
    \/ UpdateQ
    \/ AppendRecord
    \/ CollectReward
    \/ EvolutionCheck
    \/ FinishSimulation
    \/ TaskRunRaised
    \/ TaskCompleted
    \/ TaskResults
    \/ TaskExcept
    \/ TaskFinally

SpecTask == Init /\ [][NextTask]_vars

(***************************************************************************)
(* The start of simulations in app.py: the handler of each                 *)
(* start_simulation event and the thread it starts, every handler and      *)
(* every thread running on its own, interleaved at the reads and writes of *)
(* the global simulation_running.  What a thread does between two of them  *)
(* (the run itself) is one step here.  events and threads hold one entry   *)
(* per event received.                                                     *)
(***************************************************************************)
\* the variables of the simulation itself
simVars == <<pc, runArgs, progress, topics, i, current_round_number, rewards_history,
             simulation_results, q_table, roundLocals, round_data, summary, calls,
             synthLog, genLog, lastUpdate, evolveLog, atRoundStart>>

logVars == <<log_queue, lines_put, connect_pc, emitter_msg, taken>>

rerunVars == <<reruns, earlier_results>>

\* a start_simulation event was accepted and the run it started has not ended
RunInProgress ==
    \E e \in 1..Len(events) :
        events[e].pc \in {"accepted", "spawned"} /\ threads[e] # "ended"

\* if simulation_running: emit(... 'Simulation already running.'); return
StartDecision(running) == IF running THEN "rejected" ELSE "accepted"

\* a client sends start_simulation; late records that it arrived while the
\* run of an accepted event had not ended
EventArrives ==
    /\ Len(events) < MaxEvents
    /\ events' = Append(events, [pc |-> "check", late |-> RunInProgress])
    /\ threads' = Append(threads, "none")
    /\ UNCHANGED <<simulation_running, task_pc, emitted, logVars, rerunVars, simVars>>

\* start_simulation: the test of the flag
HandlerCheck ==
    /\ \E e \in 1..Len(events) :
        /\ events[e].pc = "check"
        /\ events' = [events EXCEPT ![e].pc = StartDecision(simulation_running)]
    /\ UNCHANGED <<threads, simulation_running, task_pc, emitted, logVars, rerunVars,
                   simVars>>

\* start_simulation: the arguments are read, the thread is created and started
HandlerSpawn ==
    /\ \E e \in 1..Len(events) :
        /\ events[e].pc = "accepted"
        /\ events' = [events EXCEPT ![e].pc = "spawned"]
        /\ threads' = [threads EXCEPT ![e] = "created"]
    /\ UNCHANGED <<simulation_running, task_pc, emitted, logVars, rerunVars, simVars>>

\* run_simulation_task: simulation_running = True
ThreadBegin ==
    /\ \E e \in 1..Len(threads) :
        /\ threads[e] = "created"
        /\ threads' = [threads EXCEPT ![e] = "try"]
    /\ simulation_running' = TRUE
    /\ UNCHANGED <<events, task_pc, emitted, logVars, rerunVars, simVars>>

\* run_simulation_task: the server is not running; simulation_running = False,
\* return, and the finally clause
ThreadAbort ==
    /\ \E e \in 1..Len(threads) :
        /\ threads[e] = "try"
        /\ threads' = [threads EXCEPT ![e] = "ended"]
    /\ simulation_running' = FALSE
    /\ UNCHANGED <<events, task_pc, emitted, logVars, rerunVars, simVars>>

\* run_simulation_task: the run, up to its results or to the except clause
ThreadRun ==
    /\ \E e \in 1..Len(threads) :
        /\ threads[e] = "try"
        /\ threads' = [threads EXCEPT ![e] = "finally"]
    /\ UNCHANGED <<events, simulation_running, task_pc, emitted, logVars, rerunVars,
                   simVars>>

\* run_simulation_task: finally: simulation_running = False
ThreadFinally ==
    /\ \E e \in 1..Len(threads) :
        /\ threads[e] = "finally"
        /\ threads' = [threads EXCEPT ![e] = "ended"]
    /\ simulation_running' = FALSE
    /\ UNCHANGED <<events, task_pc, emitted, logVars, rerunVars, simVars>>

NextApp ==
    \/ EventArrives
    \/ HandlerCheck
    \/ HandlerSpawn
    \/ ThreadBegin
    \/ ThreadAbort
    \/ ThreadRun
    \/ ThreadFinally

SpecApp == Init /\ [][NextApp]_vars

(***************************************************************************)
(* The log queue of app.py: QueueHandler.emit puts the lines, and two      *)
(* consumers take them, the drain loop of the connect handler and          *)
(* log_emitter_task.  Queue.get() blocks while the queue is empty: a       *)
(* consumer at get() can take its step only when there is a line.  The     *)
(* lines are numbered 1, 2, ... in the order they are put.                 *)
(***************************************************************************)
\* while not log_queue.empty(): the loop goes on to get(), or the handler returns
AfterEmptyTest(queue) == IF queue = <<>> THEN "returned" ELSE "get"

\* QueueHandler.emit: self.queue.put(self.format(record))
LogPut ==
    /\ lines_put < MaxLines
    /\ lines_put' = lines_put + 1
    /\ log_queue' = Append(log_queue, lines_put + 1)
    /\ taken' = Append(taken, <<>>)
    /\ UNCHANGED <<connect_pc, emitter_msg, events, threads, rerunVars, taskVars, simVars>>

\* a client connects: test_connect sends its two events and reaches the loop
ClientConnects ==
    /\ connect_pc \in {"idle", "returned"}
    /\ connect_pc' = "test"
    /\ UNCHANGED <<log_queue, lines_put, emitter_msg, taken, events, threads, rerunVars,
                   taskVars, simVars>>

\* test_connect: log_queue.empty()
ConnectTest ==
    /\ connect_pc = "test"
    /\ connect_pc' = AfterEmptyTest(log_queue)
    /\ UNCHANGED <<log_queue, lines_put, emitter_msg, taken, events, threads, rerunVars,
                   taskVars, simVars>>

\* test_connect: emit('log_message', {'message': log_queue.get()})
ConnectGet ==
    /\ connect_pc = "get"
    /\ log_queue # <<>>
    /\ log_queue' = Tail(log_queue)
    /\ taken' = [taken EXCEPT ![Head(log_queue)] = Append(@, "connect")]
    /\ connect_pc' = "test"
    /\ UNCHANGED <<lines_put, emitter_msg, events, threads, rerunVars, taskVars, simVars>>

\* log_emitter_task: message = log_queue.get()
EmitterGet ==
    /\ emitter_msg = 0
    /\ log_queue # <<>>
    /\ emitter_msg' = Head(log_queue)
    /\ log_queue' = Tail(log_queue)
    /\ taken' = [taken EXCEPT ![Head(log_queue)] = Append(@, "emitter")]
    /\ UNCHANGED <<lines_put, connect_pc, events, threads, rerunVars, taskVars, simVars>>

\* log_emitter_task: socketio.emit('log_message', {'message': message})
EmitterEmit ==
    /\ emitter_msg # 0
    /\ emitter_msg' = 0
    /\ UNCHANGED <<log_queue, lines_put, connect_pc, taken, events, threads, rerunVars,
                   taskVars, simVars>>

NextLog ==
    \/ LogPut
    \/ ClientConnects
    \/ ConnectTest
    \/ ConnectGet
    \/ EmitterGet
    \/ EmitterEmit

SpecLog == Init /\ [][NextLog]_vars

(***************************************************************************)
(* A second run_simulation on the same LearningEnvironment, after the      *)
(* first has returned: the environment, its policy and its records are     *)
(* the ones the first run left; the number of rounds, the curriculum and   *)
(* the locals are new, the interval and the observer are those of the      *)
(* first call.  The second run has at most MaxAgain rounds, and the two    *)
(* runs have at most MaxRounds rounds together.                            *)
(***************************************************************************)
\* self.simulation_results emptied where run_simulation begins
ResultsAtStart_cleared(results) == <<>>

\* run_simulation assigns rewards_history only: self.simulation_results is
\* what __init__ and the earlier rounds made it
ResultsAtStart(results) == results

\* run_simulation(num_rounds, topics, evolution_interval, socketio) again
RunAgain ==
    /\ pc = "done"
    /\ reruns = 0
    /\ reruns' = 1
    /\ earlier_results' = simulation_results
    /\ simulation_results' = ResultsAtStart(simulation_results)
    /\ num_rounds + MaxAgain <= MaxRounds
    /\ \E n \in 0..MaxAgain, tps \in InitialTopicLists :
        /\ num_rounds' = n
        /\ topics' = tps
        /\ atRoundStart' = [q_table |-> q_table,
                            results |-> ResultsAtStart(simulation_results),
                            window  |-> <<>>,
                            topics  |-> tps]
    /\ rewards_history' = <<>>
    /\ i' = 0
    /\ synthLog' = <<>>
    /\ genLog' = <<>>
    /\ evolveLog' = <<>>
    /\ pc' = "loop"
    /\ UNCHANGED <<events, threads, logVars, taskVars, evolution_interval, socketio,
                   current_round_number, q_table, epsilon, progress, roundLocals, round_data, summary, calls, lastUpdate>>

NextRerun ==
    \/ StartSimulation
    \/ BeginRound
    \/ SynthesizeTopic
    \/ SelectTopic
    \/ GenerateProblem
    \/ ChooseAction
    \/ SolveProblem
    \/ Evaluate
    \/ ProcessFeedback
    \/ UpdateQ
    \/ AppendRecord
    \/ CollectReward
    \/ EvolutionCheck
    \/ FinishSimulation
    \/ RunAgain

SpecRerun == Init /\ [][NextRerun]_vars

(***************************************************************************)
(* The calls of the round in progress, read from the history variable.     *)
(***************************************************************************)
HasCall(op) == \E k \in 1..Len(calls) : calls[k].op = op

CountCalls(op) == Cardinality({k \in 1..Len(calls) : calls[k].op = op})

CallOf(op) == calls[CHOOSE k \in 1..Len(calls) : calls[k].op = op]

\* the call op returned a text that carries the error marker
CallErred(op) ==
    \E k \in 1..Len(calls) : calls[k].op = op /\ Contains(calls[k].result, ErrorMarker)

GenerateErred == CallErred("generate_learning_material")

SolveErred == CallErred("solve_problem")

EvaluateErred == CallErred("evaluate_student_response")

RoundFailed == GenerateErred \/ SolveErred \/ EvaluateErred

\* run_interaction_round has returned and the next round has not begun
RoundReturned == pc \in {"returned", "evolve"}

IsRoundOp(op) == op \notin {"synthesize_new_topic", "random.choice"}

\* the operations of run_interaction_round so far, in the order they were made
RoundOps == SelectSeq([k \in 1..Len(calls) |-> calls[k].op], IsRoundOp)

Pipeline == <<"generate_learning_material", "choose_action", "solve_problem",
              "evaluate_student_response", "process_feedback", "update_q_value",
              "append">>

\* the delivery of the progress event of the current round raised
DeliveryFailed == progress # NoProgress /\ ~progress.delivered

\* the number of evolve calls of the run made on who
EvolveCount(who) == Cardinality({k \in 1..Len(evolveLog) : evolveLog[k].who = who})

(***************************************************************************)
(* C1: a round in which problem generation, solve_problem or the           *)
(* evaluation returns a text with the error marker returns an empty        *)
(* result, appends no record to simulation_results and adds no reward to   *)
(* the reward-history window.                                              *)
(***************************************************************************)
C1_FailedRoundIsEmpty ==
    (RoundReturned /\ RoundFailed) =>
        /\ round_data = EmptyDict
        /\ ~DictTruthy(round_data)
        /\ simulation_results = atRoundStart.results
        /\ rewards_history = atRoundStart.window

C1_Witness ==
    /\ pc = "evolve"
    /\ SolveErred
    /\ atRoundStart.results # <<>>
    /\ atRoundStart.window # <<>>

(***************************************************************************)
(* C2: a failed round leaves the value table as it was before the round:   *)
(* update_q_value is not invoked in it, and no failed step is made again.  *)
(***************************************************************************)
C2_FailedRoundKeepsTable ==
    RoundFailed =>
        /\ q_table = atRoundStart.q_table
        /\ ~HasCall("update_q_value")
        /\ CountCalls("generate_learning_material") = 1
        /\ CountCalls("solve_problem") <= 1
        /\ CountCalls("evaluate_student_response") <= 1
        /\ pc \in {"returned", "evolve", "loop", "done"}

C2_Witness ==
    /\ pc = "returned"
    /\ EvaluateErred
    /\ atRoundStart.q_table # EmptyTable

(***************************************************************************)
(* C3: when problem generation signals an error no later step of the round *)
(* executes: no choose_action, no solve_problem, no evaluation, no         *)
(* process_feedback, no update of the policy.                              *)
(***************************************************************************)
C3_GenerateFailureStopsRound ==
    GenerateErred =>
        /\ RoundOps = <<"generate_learning_material">>
        /\ ~HasCall("choose_action")
        /\ ~HasCall("solve_problem")
        /\ ~HasCall("evaluate_student_response")
        /\ ~HasCall("process_feedback")
        /\ ~HasCall("update_q_value")
        /\ q_table = atRoundStart.q_table
        /\ pc \notin {"choose", "solve", "evaluate", "feedback", "update", "record"}

C3_Witness ==
    /\ pc = "evolve"
    /\ GenerateErred
    /\ i > 0

(***************************************************************************)
(* C4: when solve_problem signals an error the evaluation is not requested *)
(* in that round; when the evaluation signals an error process_feedback is *)
(* not called; in both cases no policy update and no record follow.        *)
(***************************************************************************)
C4_LaterFailuresStopRound ==
    /\ SolveErred =>
        /\ RoundOps = <<"generate_learning_material", "choose_action", "solve_problem">>
        /\ ~HasCall("evaluate_student_response")
    /\ EvaluateErred =>
        /\ RoundOps = <<"generate_learning_material", "choose_action", "solve_problem",
                        "evaluate_student_response">>
        /\ ~HasCall("process_feedback")
    /\ (SolveErred \/ EvaluateErred) =>
        /\ ~HasCall("update_q_value")
        /\ ~HasCall("append")
        /\ q_table = atRoundStart.q_table
        /\ simulation_results = atRoundStart.results

C4_Witness ==
    /\ pc = "evolve"
    /\ EvaluateErred
    /\ ~SolveErred
    /\ atRoundStart.results # <<>>

(***************************************************************************)
(* C5: in a round with no collaborator error the steps happen once each    *)
(* and in this order: problem generation, choose_action, solve_problem,    *)
(* evaluation, process_feedback, update_q_value, record append.            *)
(***************************************************************************)
C5_PipelineOrder ==
    /\ IsPrefix(RoundOps, Pipeline)
    /\ (RoundReturned /\ ~RoundFailed) => RoundOps = Pipeline

C5_Witness ==
    /\ pc = "returned"
    /\ ~RoundFailed
    /\ Len(RoundOps) = Len(Pipeline)
    /\ HasCall("synthesize_new_topic")

(***************************************************************************)
(* C6: in every successful round the policy is updated with state = the    *)
(* round's topic, action = the action choose_action returned in that       *)
(* round, reward = the reward extracted from that round's feedback, and    *)
(* nextState = the same topic.                                             *)
(***************************************************************************)
C6_UpdateArguments ==
    /\ (RoundReturned /\ ~RoundFailed) => HasCall("update_q_value")
    /\ HasCall("update_q_value") =>
        LET topic  == CallOf("random.choice").result
            action == CallOf("choose_action").result
            rwd    == _get_reward_from_feedback(CallOf("evaluate_student_response").result)
            target == update_q_value(atRoundStart.q_table, topic, action, rwd, topic)
        IN  /\ CountCalls("update_q_value") = 1
            /\ CallOf("generate_learning_material").args[1] = topic
            /\ CallOf("update_q_value").args = <<topic, action, rwd, topic>>
            /\ q_table = target

C6_Witness ==
    /\ pc = "returned"
    /\ HasCall("update_q_value")
    /\ CallOf("update_q_value").args[3] < 0
    /\ <<CallOf("update_q_value").args[1], CallOf("update_q_value").args[2]>>
           \in DOMAIN atRoundStart.q_table

C8_EvolveAtEvolutionPoints ==
    [][ IF /\ pc = "evolve"
           /\ (i + 1) % evolution_interval = 0
           /\ Len(rewards_history) > 0
        THEN evolveLog' = evolveLog \o
               <<[who |-> "teacher", value |-> Mean(rewards_history), round |-> i],
                 [who |-> "student", value |-> Mean(rewards_history), round |-> i]>>
        ELSE evolveLog' = evolveLog ]_vars

C8_Witness ==
    /\ Len(evolveLog) = 2
    /\ evolveLog[1].who = "teacher"
    /\ evolveLog[2].who = "student"
    /\ evolveLog[1].round = 2
    /\ evolveLog[2].value = Quotient(Half, 1)
    /\ Len(simulation_results) = 3

C10_CurriculumAppendOnly ==
    [][ pc # "idle" =>
          /\ IsPrefix(topics, topics')
          /\ NoDuplicates(topics) => NoDuplicates(topics') ]_vars

C10_Witness ==
    /\ pc = "select"
    /\ HasCall("synthesize_new_topic")
    /\ CallOf("synthesize_new_topic").result = TopicNN
    /\ atRoundStart.topics = <<TopicRL, TopicNN>>
    /\ topics = <<TopicRL, TopicNN>>

\* the text the synthesis request of this round returned
SynthesisResult == CallOf("synthesize_new_topic").result

\* a step of the run in which a topic synthesis returns
SynthesisReturns == pc = "synthesize" /\ pc' = "select"

(***************************************************************************)
(* C11, as stated: every text returned by topic synthesis, the empty text  *)
(* included, is appended to the curriculum exactly when it carries no      *)
(* error marker and is not already in the curriculum; otherwise the        *)
(* curriculum is unchanged.                                                *)
(***************************************************************************)
C11_AppendedUnlessErrorOrPresent ==
    [][ SynthesisReturns =>
          LET new_topic == SynthesisResult'
          IN  IF ~Contains(new_topic, ErrorMarker) /\ new_topic \notin Range(topics)
              THEN topics' = Append(topics, new_topic)
              ELSE topics' = topics ]_vars

(***************************************************************************)
(* C11, amended: a text returned by topic synthesis is appended to the     *)
(* curriculum exactly when it is not empty, carries no error marker and is *)
(* not already in the curriculum; otherwise (the empty text included) the  *)
(* curriculum is unchanged.                                                *)
(***************************************************************************)
C11_AppendedWhenNonEmptyNonErrorNew ==
    [][ SynthesisReturns =>
          LET new_topic == SynthesisResult'
          IN  IF /\ Len(new_topic) > 0
                 /\ ~Contains(new_topic, ErrorMarker)
                 /\ new_topic \notin Range(topics)
              THEN topics' = Append(topics, new_topic)
              ELSE topics' = topics ]_vars

C11_Witness ==
    /\ pc = "select"
    /\ HasCall("synthesize_new_topic")
    /\ SynthesisResult = <<>>
    /\ topics = atRoundStart.topics
    /\ topics = <<TopicRL, TopicNN>>

\* the rewards of the records of simulation_results, in order
RecordedRewards == [k \in 1..Len(simulation_results) |-> simulation_results[k].reward]

(***************************************************************************)
(* C12: get_summary_statistics returns count 0, mean/min/max 0.0 and an    *)
(* empty topic set when simulation_results is empty; otherwise count is    *)
(* the number of records, min and max are the smallest and the largest     *)
(* recorded reward, mean is the sum of the rewards divided by the count,   *)
(* min <= mean <= max, and the topic set is exactly the set of the topics  *)
(* of the records.                                                         *)
(***************************************************************************)
C12_SummaryStatistics ==
    pc = "done" =>
        IF simulation_results = <<>>
        THEN /\ summary.total_rounds = 0
             /\ summary.average_reward = ZeroFloat
             /\ summary.min_reward = 0
             /\ summary.max_reward = 0
             /\ summary.unique_topics_covered = {}
        ELSE LET mean == summary.average_reward
                 n    == Len(simulation_results)
             IN  /\ summary.total_rounds = n
                 /\ \E k \in 1..n : RecordedRewards[k] = summary.min_reward
                 /\ \E k \in 1..n : RecordedRewards[k] = summary.max_reward
                 /\ \A k \in 1..n : /\ summary.min_reward <= RecordedRewards[k]
                                    /\ RecordedRewards[k] <= summary.max_reward
                 /\ mean.den > 0
                 /\ mean.num * n = Sum(RecordedRewards) * mean.den
                 /\ summary.min_reward * mean.den <= mean.num
                 /\ mean.num <= summary.max_reward * mean.den
                 /\ \A t \in summary.unique_topics_covered :
                        \E k \in 1..n : simulation_results[k].topic = t
                 /\ \A k \in 1..n :
                        simulation_results[k].topic \in summary.unique_topics_covered

C12_Witness ==
    /\ pc = "done"
    /\ Len(simulation_results) = 3
    /\ summary.min_reward < 0
    /\ summary.max_reward > 0
    /\ summary.average_reward = Quotient(Half, 1)
    /\ Cardinality(summary.unique_topics_covered) = 2

\* the values a reward can take: -1.5, -1.0, -0.5, 0.0, 0.5, 1.0, 1.5
RewardValues == {k * Half : k \in -3..3}

(***************************************************************************)
(* C13: for every feedback text _get_reward_from_feedback is               *)
(* deterministic (every application to the text returns the same value)    *)
(* and returns a value in {-1.5, -1.0, -0.5, 0.0, 0.5, 1.0, 1.5}.          *)
(***************************************************************************)
C13_RewardDeterministicInRange ==
    \A k \in 1..Len(calls) :
        calls[k].op = "_get_reward_from_feedback" =>
            /\ calls[k].result \in RewardValues
            /\ calls[k].result = calls[1].result

C13_Witness ==
    /\ pc = "extract"
    /\ Len(calls) = MaxExtractions
    /\ calls[1].result = -3 * Half
    /\ calls[2].result = -3 * Half

\* 1 when the keyword is in the lowercased feedback, else 0
Present(kw) == IF Contains(Lower(teacher_feedback), kw) THEN 1 ELSE 0

Held(q, state, action) ==
    IF \E k \in DOMAIN q : k = <<state, action>> THEN q[<<state, action>>] ELSE 0

\* the largest value held for state over the action set
BestHeld(q, state) ==
    CHOOSE m \in {Held(q, state, a) : a \in Range(actions)} :
        \A a \in Range(actions) : Held(q, state, a) <= m

\* this step is a call of update_q_value
UpdateStep == pc = "policy" /\ i' = i + 1

LastIsChoose == pc = "policy" /\ Len(calls) = 1 /\ calls[1].op = "choose_action"

LastIsUpdate == pc = "policy" /\ Len(calls) = 1 /\ calls[1].op = "update_q_value"

(***************************************************************************)
(* C15: update_q_value(state, action, reward, nextState) with a non-empty  *)
(* nextState sets table[(state, action)] to                                *)
(* current + alpha * (reward + gamma * maxNext - current), current the     *)
(* entry before the call (0.0 if absent), maxNext the maximum over the     *)
(* action set of table[(nextState, a)] (absent = 0.0); once per call, and  *)
(* no other entry changes.  With alpha 0.1, gamma 0.9 and reward 1.0 an    *)
(* all-zero state gives 0.1, and from 0.1 with a best next value of 2.0    *)
(* the result is 0.37.                                                     *)
(***************************************************************************)
C15_UpdateRule ==
    [][ (UpdateStep /\ Len(calls'[1].args[4]) > 0) =>
          LET state   == calls'[1].args[1]
              action  == calls'[1].args[2]
              rwd     == calls'[1].args[3]
              next    == calls'[1].args[4]
              current == Held(q_table, state, action)
              maxNext == BestHeld(q_table, next)
              target  == rwd + GammaNum * (maxNext \div GammaDen)
              new     == q_table'[<<state, action>>]
          IN  /\ maxNext % GammaDen = 0
              /\ (target - current) % AlphaDen = 0
              /\ AlphaDen * (new - current) = AlphaNum * (target - current)
              /\ DOMAIN q_table' = DOMAIN q_table \cup {<<state, action>>}
              /\ \A k \in DOMAIN q_table : k # <<state, action>> => q_table'[k] = q_table[k]
              /\ (current = 0 /\ maxNext = 0 /\ rwd = Scale) => new = Scale \div 10
              /\ (current = Scale \div 10 /\ maxNext = 2 * Scale /\ rwd = Scale)
                    => new = 37 * (Scale \div 100) ]_vars

C15_Witness ==
    /\ LastIsUpdate
    /\ calls[1].args = <<TopicRL, actions[1], Scale, TopicRL>>
    /\ Held(q_table, TopicRL, actions[2]) = 2 * Scale
    /\ Held(q_table, TopicRL, actions[1]) = 37 * (Scale \div 100)

(***************************************************************************)
(* C16: update_q_value with an empty nextState does not bootstrap: maxNext *)
(* is 0.0 whatever the table holds (also for the empty state itself), so   *)
(* the new value is current + alpha * (reward - current).                  *)
(***************************************************************************)
C16_TerminalUpdate ==
    [][ (UpdateStep /\ Len(calls'[1].args[4]) = 0) =>
          LET state   == calls'[1].args[1]
              action  == calls'[1].args[2]
              rwd     == calls'[1].args[3]
              current == Held(q_table, state, action)
              new     == q_table'[<<state, action>>]
          IN  /\ (rwd - current) % AlphaDen = 0
              /\ AlphaDen * (new - current) = AlphaNum * (rwd - current) ]_vars

C16_Witness ==
    /\ LastIsUpdate
    /\ i = 1
    /\ calls[1].args = <<TopicRL, actions[1], Scale, <<>> >>
    /\ Held(q_table, <<>>, actions[1]) = Scale
    /\ Held(q_table, TopicRL, actions[1]) = Scale \div 10

(***************************************************************************)
(* C17: with epsilon = 1.0, for every value the draw of choose_action can  *)
(* take and for every two tables, the set of actions choose_action can     *)
(* return for a state is the same: the full action set.                    *)
(***************************************************************************)
C17_FullExplorationIgnoresTable ==
    (pc = "policy" /\ epsilon = 10) =>
        /\ \A state \in PolicyStates, u \in UniformDraws, q \in InitialTables :
              /\ choose_action_drawn(q_table, epsilon, state, u) = Range(actions)
              /\ choose_action_drawn(q, epsilon, state, u)
                    = choose_action_drawn(q_table, epsilon, state, u)
        /\ LastIsChoose => calls[1].result \in Range(actions)

C17_Witness ==
    /\ LastIsChoose
    /\ epsilon = 10
    /\ calls[1].args[1] = TopicRL
    /\ calls[1].result = actions[1]
    /\ Held(q_table, TopicRL, actions[2]) > Held(q_table, TopicRL, actions[1])

(***************************************************************************)
(* C18: with epsilon = 0.0 choose_action never explores, whatever the      *)
(* draw: it returns an action whose value (absent = 0.0) is the maximum at *)
(* the state, and the only such action when the maximum is unique.         *)
(***************************************************************************)
C18_NoExplorationIsGreedy ==
    (pc = "policy" /\ epsilon = 0) =>
        /\ \A state \in PolicyStates, u \in UniformDraws :
              LET returned == choose_action_drawn(q_table, epsilon, state, u)
                  maximal  == {a \in Range(actions) :
                                 Held(q_table, state, a) = BestHeld(q_table, state)}
              IN  /\ returned # {}
                  /\ returned \subseteq maximal
                  /\ Cardinality(maximal) = 1 => returned = maximal
        /\ LastIsChoose =>
              Held(q_table, calls[1].args[1], calls[1].result)
                  = BestHeld(q_table, calls[1].args[1])

C18_Witness ==
    /\ LastIsChoose
    /\ epsilon = 0
    /\ calls[1].args = <<TopicRL, 0>>
    /\ calls[1].result = actions[2]
    /\ Held(q_table, TopicRL, actions[2]) > Held(q_table, TopicRL, actions[1])
    /\ Held(q_table, TopicRL, actions[1]) > 0

(***************************************************************************)
(* C19: across any sequence of choose_action and update_q_value calls the  *)
(* set of (state, action) keys of the table never loses a key;             *)
(* choose_action leaves the table unchanged, and only update_q_value       *)
(* changes it.                                                             *)
(***************************************************************************)
C19_TableGrowsOnlyByUpdate ==
    [][ pc = "policy" =>
          /\ DOMAIN q_table \subseteq DOMAIN q_table'
          /\ calls'[1].op = "choose_action" => q_table' = q_table
          /\ q_table' # q_table => calls'[1].op = "update_q_value" ]_vars

C19_Witness ==
    /\ LastIsChoose
    /\ i = MaxUpdates
    /\ Cardinality(DOMAIN q_table) = 4

(***************************************************************************)
(* C20: a failure raised while delivering a progress notification to the   *)
(* observer in run_simulation does not abort the simulation: the round     *)
(* for which the notification was sent and all later rounds still run, so  *)
(* run_simulation is never left by an exception after a failed delivery.   *)
(***************************************************************************)
C20_DeliveryFailureDoesNotAbort ==
    DeliveryFailed => pc # "raised"

\* the number of status events of the given status the task has emitted
StatusCount(status) ==
    Cardinality({k \in 1..Len(emitted) :
                    emitted[k].event = "simulation_status" /\ emitted[k].payload = status})

\* the number of results events the task has emitted
ResultsCount ==
    Cardinality({k \in 1..Len(emitted) : emitted[k].event = "simulation_results"})

\* run_simulation_task is over: it returned, or an exception left it
TaskLeft == task_pc \in {"ended", "escaped"}

(***************************************************************************)
(* C21: an unexpected failure raised anywhere inside a run started by      *)
(* run_simulation_task is caught in that task: exactly one error status    *)
(* notification is emitted for it, no completed status and no results are  *)
(* emitted for that run, the failure does not propagate out of the task,   *)
(* and no further round of that run executes.                              *)
(***************************************************************************)
C21_RunFailureCaughtAndReportedOnce ==
    (pc = "raised" /\ TaskLeft) =>
        /\ task_pc = "ended"
        /\ StatusCount("error") = 1
        /\ StatusCount("completed") = 0
        /\ ResultsCount = 0
        /\ current_round_number = i + 1

\* what the task does keep after a failure inside the run: the flag is
\* reset, nothing reports the run as completed, no later round runs, and the
\* error status is emitted exactly when the emit of the except clause returns
RunFailureReportedUnlessEmitRaises ==
    (pc = "raised" /\ TaskLeft) =>
        /\ ~simulation_running
        /\ StatusCount("completed") = 0
        /\ ResultsCount = 0
        /\ current_round_number = i + 1
        /\ StatusCount("error") = (IF task_pc = "ended" THEN 1 ELSE 0)

\* the round indexes 0 .. n - 1, in order
RoundIndexes(n) == [k \in 1..n |-> k - 1]

(***************************************************************************)
(* C22: a collaborator-signaled failure in a round does not end the        *)
(* simulation: run_simulation finishes after exactly numRounds rounds, and *)
(* problem generation is requested exactly once in each round, whatever    *)
(* number of rounds failed.                                                *)
(***************************************************************************)
C22_FailedRoundsDoNotEndRun ==
    /\ genLog = RoundIndexes(Len(genLog))
    /\ Len(genLog) \in {i, i + 1}
    /\ RoundReturned => (Len(genLog) = i + 1 /\ CountCalls("generate_learning_material") = 1)
    /\ pc = "done" => (i = num_rounds /\ genLog = RoundIndexes(num_rounds))

C22_Witness ==
    /\ pc = "done"
    /\ num_rounds = 3
    /\ genLog = <<0, 1, 2>>
    /\ Len(simulation_results) = 1
    /\ simulation_results[1].round_number = 2

\* the round number of the last evolution trigger of the run, 0 when there was none
LastTriggerRound ==
    IF evolveLog = <<>> THEN 0 ELSE evolveLog[Len(evolveLog)].round + 1

\* the rewards of the records made after the last evolution trigger, in order
RewardsSinceTrigger ==
    LET later(rec) == rec.round_number > LastTriggerRound
        recs == SelectSeq(simulation_results, later)
    IN  [k \in 1..Len(recs) |-> recs[k].reward]

(***************************************************************************)
(* C23: after each evolution trigger the reward-history window is empty,   *)
(* and at every point of a run the window holds exactly the rewards of the *)
(* successful rounds since the last evolution trigger (or since the        *)
(* start), in round order.  (Between the return of a successful round and  *)
(* line 198 the reward of that round is not yet in the window.)            *)
(***************************************************************************)
C23_WindowHoldsRewardsSinceTrigger ==
    /\ rewards_history =
          IF pc = "returned" /\ DictTruthy(round_data)
          THEN SubSeq(RewardsSinceTrigger, 1, Len(RewardsSinceTrigger) - 1)
          ELSE RewardsSinceTrigger
    /\ (pc = "loop" /\ LastTriggerRound = i /\ i > 0) => rewards_history = <<>>

C23_Witness ==
    /\ pc = "evolve"
    /\ LastTriggerRound = 2
    /\ i = 2
    /\ Len(simulation_results) = 3
    /\ rewards_history = <<simulation_results[3].reward>>
    /\ simulation_results[3].reward # simulation_results[2].reward

(***************************************************************************)
(* C24: every successful round appends exactly one record to               *)
(* simulation_results whose topic, chosen action, problem, response,       *)
(* feedback and reward are the values used in that round, and              *)
(* run_interaction_round returns that last record; the records already in  *)
(* the sequence are never changed, reordered or removed.                   *)
(***************************************************************************)
C24_OneRecordPerSuccessfulRound ==
    [][ /\ IsPrefix(simulation_results, simulation_results')
        /\ (RoundReturned /\ ~RoundFailed) =>
               Len(simulation_results) = Len(atRoundStart.results) + 1
        /\ IF pc = "record"
           THEN LET rec == simulation_results'[Len(simulation_results')]
                IN  /\ Len(simulation_results') = Len(simulation_results) + 1
                    /\ round_data' = rec
                    /\ rec.round_number = current_round_number
                    /\ rec.topic = CallOf("random.choice").result
                    /\ rec.topic = CallOf("generate_learning_material").args[1]
                    /\ rec.problem = CallOf("generate_learning_material").result
                    /\ rec.student_action = CallOf("choose_action").result
                    /\ rec.student_response = CallOf("solve_problem").result
                    /\ rec.teacher_feedback = CallOf("evaluate_student_response").result
                    /\ rec.reward = CallOf("update_q_value").args[3]
                    /\ rec.reward = _get_reward_from_feedback(rec.teacher_feedback)
           ELSE simulation_results' = simulation_results ]_vars

C24_Witness ==
    /\ pc = "returned"
    /\ ~RoundFailed
    /\ Len(simulation_results) = 2
    /\ round_data = simulation_results[2]
    /\ simulation_results[1].round_number = 1
    /\ simulation_results[2].round_number = 3
    /\ simulation_results[1].topic # simulation_results[2].topic

(***************************************************************************)
(* C25: the topic of every round is a member of the curriculum as it       *)
(* stands after that round's growth check (random.choice is given that     *)
(* list), so a topic appended in round i can already be selected in round  *)
(* i; and the topic of every record is a member of the curriculum, also of *)
(* the final one.                                                          *)
(***************************************************************************)
C25_TopicFromGrownCurriculum ==
    /\ HasCall("random.choice") =>
          /\ CallOf("random.choice").args[1] = topics
          /\ \E k \in 1..Len(topics) : topics[k] = CallOf("random.choice").result
    /\ current_topic # NoText =>
          /\ current_topic = CallOf("random.choice").result
          /\ \E k \in 1..Len(topics) : topics[k] = current_topic
    /\ \A r \in 1..Len(simulation_results) :
          \E k \in 1..Len(topics) : topics[k] = simulation_results[r].topic

C25_Witness ==
    /\ pc = "done"
    /\ Len(simulation_results) = 2
    /\ simulation_results[1].topic = TopicRL
    /\ simulation_results[2].topic = TopicNN
    /\ simulation_results[2].round_number = 2
    /\ CallOf("random.choice").result = TopicNN
    /\ atRoundStart.topics = <<TopicRL>>
    /\ topics = <<TopicRL, TopicNN>>

\* a record of the round before the current one exists: that round succeeded
PreviousRoundSucceeded ==
    \E r \in 1..Len(simulation_results) :
        simulation_results[r].round_number = current_round_number - 1

\* the round in progress has chosen its action and not yet updated the table
ChosenNotUpdated == HasCall("choose_action") /\ ~HasCall("update_q_value")

(***************************************************************************)
(* C26: rounds execute strictly one after another: the update_q_value of   *)
(* round k (if that round succeeds) completes before the choose_action of  *)
(* round k + 1 starts, and that choose_action reads a table that contains  *)
(* round k's update.                                                       *)
(***************************************************************************)
C26_UpdateVisibleToNextChoice ==
    /\ lastUpdate # NoUpdate =>
          /\ lastUpdate.round <= current_round_number
          /\ Held(q_table, lastUpdate.key[1], lastUpdate.key[2]) = lastUpdate.value
    /\ (pc = "choose" \/ ChosenNotUpdated) =>
          /\ q_table = atRoundStart.q_table
          /\ lastUpdate # NoUpdate => lastUpdate.round < current_round_number
          /\ PreviousRoundSucceeded =>
                /\ lastUpdate # NoUpdate
                /\ lastUpdate.round = current_round_number - 1
                /\ Held(atRoundStart.q_table, lastUpdate.key[1], lastUpdate.key[2])
                      = lastUpdate.value

C26_Witness ==
    /\ pc = "solve"
    /\ current_round_number = 2
    /\ PreviousRoundSucceeded
    /\ lastUpdate.round = 1
    /\ lastUpdate.key = <<current_topic, student_conceptual_action>>
    /\ lastUpdate.value < 0

\* no (state, action) pair of the state is in the table q
Unseen(q, state) == \A k \in DOMAIN q : k[1] # state

(***************************************************************************)
(* C27: with epsilon = 0 and a state none of whose (state, action) pairs   *)
(* is in the value table, the tied set is the whole action set: every      *)
(* action of the action set is a possible result of choose_action and no   *)
(* other value is.                                                         *)
(***************************************************************************)
C27_ColdStartTiesAllActions ==
    (pc = "policy" /\ epsilon = 0) =>
        /\ \A state \in PolicyStates, u \in UniformDraws :
              Unseen(q_table, state) =>
                 choose_action_drawn(q_table, epsilon, state, u) = Range(actions)
        /\ \A state \in PolicyStates :
              Unseen(q_table, state) =>
                 choose_action(q_table, epsilon, state) = Range(actions)

C27_Witness ==
    /\ LastIsChoose
    /\ epsilon = 0
    /\ q_table # EmptyTable
    /\ Unseen(q_table, calls[1].args[1])
    /\ calls[1].result = actions[2]

C29_OneProgressEventPerRound ==
    [][ /\ ~socketio' => progress' = NoProgress
        /\ IF pc = "loop" /\ i < num_rounds /\ socketio
           THEN /\ progress'.current_round = i + 1
                /\ progress'.total_rounds = num_rounds
                /\ progress # NoProgress =>
                      progress'.current_round = progress.current_round + 1
                /\ progress = NoProgress => i = 0
                /\ calls' = <<>>
                /\ current_round_number' = progress'.current_round
           ELSE progress' = progress ]_vars

C29_Witness ==
    /\ socketio
    /\ pc = "generate"
    /\ progress = [current_round |-> 3, total_rounds |-> 3, delivered |-> TRUE]
    /\ i = 2
    /\ Len(simulation_results) = 1

\* the reflection run inside process_feedback yielded a text with the error marker
ReflectionErred ==
    \E k \in 1..Len(calls) :
        calls[k].op = "process_feedback" /\ Contains(calls[k].reflection, ErrorMarker)

(***************************************************************************)
(* C30: the outcome of the student's process_feedback is not consumed by   *)
(* the round: when the reflection run inside process_feedback fails (it    *)
(* yields error text), the round still extracts the reward, updates the    *)
(* policy and appends the record.                                          *)
(***************************************************************************)
C30_ReflectionFailureIsIgnored ==
    ReflectionErred =>
        /\ ~RoundFailed
        /\ CallOf("process_feedback").result = NoText
        /\ pc \in {"update", "record", "returned", "evolve", "loop", "done", "raised"}
        /\ pc # "update" =>
              /\ HasCall("update_q_value")
              /\ CallOf("update_q_value").args[3]
                    = _get_reward_from_feedback(CallOf("evaluate_student_response").result)
              /\ lastUpdate.round = current_round_number
              /\ Held(q_table, lastUpdate.key[1], lastUpdate.key[2]) = lastUpdate.value
        /\ pc \notin {"update", "record"} =>
              /\ RoundOps = Pipeline
              /\ DictTruthy(round_data)
              /\ simulation_results = Append(atRoundStart.results, round_data)
              /\ round_data.reward = CallOf("update_q_value").args[3]

C30_Witness ==
    /\ pc = "evolve"
    /\ ReflectionErred
    /\ Len(simulation_results) = 2
    /\ rewards_history = <<simulation_results[1].reward, simulation_results[2].reward>>

\* the client returned None or the empty text to the wrapper op
ClientMissing(op) ==
    \E k \in 1..Len(calls) : calls[k].op = op /\ ~ResponseTruthy(calls[k].client)

WrapperOps == {"generate_learning_material", "solve_problem", "evaluate_student_response"}

C32_SynthesisArguments ==
    HasCall("synthesize_new_topic") =>
        LET request == CallOf("synthesize_new_topic")
            window  == atRoundStart.window
            tps     == atRoundStart.topics
        IN  /\ Len(tps) > 0 => request.args[1] = tps[Len(tps)]
            /\ window = <<>> => request.args[2] = NoPerformanceData
            /\ window # <<>> =>
                  /\ request.args[2].data
                  /\ request.args[2].rounds = Len(window)
                  /\ 2 * Abs(request.args[2].average * Len(window)
                               - Hundredths(Sum(window))) <= Len(window)
            /\ (pc \notin {"loop", "done"} /\ evolveLog # <<>> /\ LastTriggerRound = i) =>
                  request.args[2] = NoPerformanceData

C32_Witness ==
    /\ pc = "select"
    /\ HasCall("synthesize_new_topic")
    /\ i = 2
    /\ Len(topics) = 2
    /\ CallOf("synthesize_new_topic").args[1] = TopicRL
    /\ CallOf("synthesize_new_topic").args[2] = [data |-> TRUE, rounds |-> 2, average |-> 150]

\* a synthesis request in the round right after an evolution trigger
C32_WitnessAfterTrigger ==
    /\ pc = "select"
    /\ HasCall("synthesize_new_topic")
    /\ evolveLog # <<>>
    /\ LastTriggerRound = i
    /\ CallOf("synthesize_new_topic").args[2] = NoPerformanceData

(***************************************************************************)
(* C33: update_q_value(state, action, ...) changes exactly the entry        *)
(* (state, action) of the value table (creating it when absent) and leaves *)
(* every other entry and epsilon unchanged; in particular it creates no    *)
(* entry for nextState.  (The action set, alpha and gamma are assigned     *)
(* only by the constructor and are definitions of this module.)            *)
(***************************************************************************)
C33_UpdateFrame ==
    [][ UpdateStep =>
          LET state      == calls'[1].args[1]
              action     == calls'[1].args[2]
              next_state == calls'[1].args[4]
          IN  /\ DOMAIN q_table' = DOMAIN q_table \cup {<<state, action>>}
              /\ \A k \in DOMAIN q_table :
                    k # <<state, action>> => q_table'[k] = q_table[k]
              /\ \A a \in Range(actions) :
                    (<<next_state, a>> \notin DOMAIN q_table
                        /\ <<next_state, a>> # <<state, action>>)
                    => <<next_state, a>> \notin DOMAIN q_table'
              /\ epsilon' = epsilon ]_vars

C33_Witness ==
    /\ LastIsUpdate
    /\ calls[1].args[1] = <<>>
    /\ calls[1].args[2] = actions[2]
    /\ calls[1].args[4] = TopicRL
    /\ DOMAIN q_table = DOMAIN PresetTable \cup {<<<<>>, actions[2]>>}
    /\ \A k \in DOMAIN PresetTable : q_table[k] = PresetTable[k]

\* run_simulation stands between two rounds, or after the last one
BetweenRounds == pc \in {"loop", "done"}

(***************************************************************************)
(* C34: in run_simulation, at the end of every round index i the           *)
(* reward-history window holds at most (i + 1) mod evolutionInterval       *)
(* rewards, so the window never holds more than evolutionInterval rewards  *)
(* and is empty after every round with (i + 1) mod evolutionInterval = 0,  *)
(* whether or not evolve was invoked.  (Between two rounds the variable i  *)
(* already is the next index, the i + 1 of the round that ended.)          *)
(***************************************************************************)
C34_WindowBoundedByPosition ==
    /\ BetweenRounds => Len(rewards_history) <= i % evolution_interval
    /\ (BetweenRounds /\ i % evolution_interval = 0) => rewards_history = <<>>
    /\ Len(rewards_history) <= evolution_interval

C34_Witness ==
    /\ pc = "loop"
    /\ evolution_interval = 4
    /\ i = 3
    /\ Len(rewards_history) = 3

\* the end of a round at a multiple of the interval at which evolve was not invoked
C34_WitnessNoEvolve ==
    /\ pc = "loop"
    /\ evolution_interval = 2
    /\ i = 2
    /\ evolveLog = <<>>
    /\ rewards_history = <<>>

(***************************************************************************)
(* C35: with evolutionInterval = 1 (on a non-empty curriculum, the         *)
(* progress events being delivered), run_simulation with numRounds >= 2    *)
(* fails with an arithmetic error (modulo by zero) at round index 1, after *)
(* exactly one round has run and after the progress event of round 2,      *)
(* before any topic-synthesis request; with numRounds = 1 it completes     *)
(* normally.                                                               *)
(***************************************************************************)
C35_IntervalOneFailsInSecondRound ==
    (pc # "idle" /\ evolution_interval = 1 /\ topics # <<>> /\ ~DeliveryFailed) =>
        /\ synthLog = <<>>
        /\ i <= 1
        /\ pc = "raised" =>
              /\ num_rounds >= 2
              /\ i = 1
              /\ GrowthRaises(i, evolution_interval)
              /\ current_round_number = 2
              /\ socketio => progress = ProgressEvent(1, num_rounds, TRUE)
              /\ genLog = <<0>>
              /\ calls = <<>>
        /\ (i = 1 /\ num_rounds >= 2) => pc \in {"loop", "raised"}
        /\ pc = "done" => (num_rounds <= 1 /\ i = num_rounds /\ Len(genLog) = num_rounds)
        /\ num_rounds <= 1 => pc # "raised"

C35_Witness ==
    /\ pc = "raised"
    /\ evolution_interval = 1
    /\ num_rounds = 3
    /\ i = 1
    /\ socketio
    /\ progress = ProgressEvent(1, 3, TRUE)
    /\ Len(simulation_results) = 1

\* a run of one round with an interval of 1 that completed
C35_WitnessOneRound ==
    /\ pc = "done"
    /\ evolution_interval = 1
    /\ num_rounds = 1
    /\ Len(simulation_results) = 1
    /\ Len(evolveLog) = 2

\* the simulation threads that were started and have not ended
LiveThreads == {e \in 1..Len(threads) : threads[e] \notin {"none", "ended"}}

\* the simulation threads inside run_simulation_task
ActiveThreads == {e \in 1..Len(threads) : threads[e] \in {"try", "finally"}}

(***************************************************************************)
(* C36: at most one simulation task runs at any time: under every          *)
(* interleaving of start_simulation events and simulation threads, a       *)
(* start_simulation event that arrives after another one was accepted and  *)
(* before that run has ended does not start a second thread.               *)
(***************************************************************************)
C36_AtMostOneSimulationThread ==
    /\ Cardinality(LiveThreads) <= 1
    /\ \A e \in 1..Len(events) : events[e].late => threads[e] = "none"

\* the second half of C36 on its own: an event that arrived during a run
\* started no thread
LateEventStartsNoThread ==
    \A e \in 1..Len(events) : events[e].late => threads[e] = "none"

\* what the test of the flag does give: an event whose handler reads the
\* flag while a thread is between its first statement and its last is rejected
RejectedIffFlagSet ==
    [][ \A e \in 1..Len(events) :
          (events[e].pc = "check" /\ events'[e].pc # "check") =>
              (events'[e].pc = "rejected") = simulation_running ]_vars

(***************************************************************************)
(* C37: the simulation_running flag is true exactly while a simulation     *)
(* task is active: it is true from the start of run_simulation_task until  *)
(* that task ends, and it is false once the task has ended by any path     *)
(* (service unavailable, normal completion, or exception), so a later      *)
(* start_simulation is accepted.                                           *)
(***************************************************************************)
C37_FlagTrueExactlyWhileTaskActive ==
    simulation_running = (ActiveThreads # {})

\* what holds of the flag as long as a single thread was started
FlagTracksSingleTask ==
    Cardinality({e \in 1..Len(threads) : threads[e] # "none"}) <= 1 =>
        simulation_running = (ActiveThreads # {})

\* the flag of the single task of SpecTask: set while the task is in its try
\* block or its except clause, reset once the task is left
FlagOfTheTask ==
    /\ task_pc \in {"check", "abort", "announce", "run", "results", "except"}
          => simulation_running
    /\ task_pc \in {"idle", "ended", "escaped"} => ~simulation_running

\* the connect handler stands at get() and there is no line to take
DrainBlocked == connect_pc = "get" /\ log_queue = <<>>

\* every line is in the queue and was taken by nobody, or is out of it and
\* was taken by one consumer, once
LinesTakenOnce ==
    \A line \in 1..lines_put :
        IF line \in Range(log_queue) THEN taken[line] = <<>> ELSE Len(taken[line]) = 1

(***************************************************************************)
(* C38: the log drain of the connect handler never blocks: under every     *)
(* interleaving with the log emitter thread, which takes lines from the    *)
(* same queue, the handler returns once the queue is empty, and every log  *)
(* line put on the queue is taken by exactly one of the two consumers.     *)
(***************************************************************************)
C38_DrainNeverBlocks ==
    /\ ~DrainBlocked
    /\ LinesTakenOnce

\* the round numbers of the records, in order
RecordNumbers == [k \in 1..Len(simulation_results) |-> simulation_results[k].round_number]

(***************************************************************************)
(* C39: after run_simulation(numRounds, ...) on a fresh                    *)
(* LearningEnvironment, the returned results sequence has one record per   *)
(* successful round and no other, so its length is at most numRounds; the  *)
(* records' round numbers are strictly increasing, each lies in            *)
(* 1..numRounds and equals the currentRound of the progress event of its   *)
(* round.  (Stated of every point of the run, the return included.)        *)
(***************************************************************************)
C39_RecordsNumberedByRound ==
    pc # "idle" =>
        /\ Len(simulation_results) <= num_rounds
        /\ \A k \in 1..Len(RecordNumbers) :
              /\ RecordNumbers[k] \in 1..num_rounds
              /\ RecordNumbers[k] <= current_round_number
        /\ \A a, b \in 1..Len(RecordNumbers) : a < b => RecordNumbers[a] < RecordNumbers[b]
        /\ RoundReturned =>
              IF RoundFailed
              THEN \A k \in 1..Len(RecordNumbers) : RecordNumbers[k] # current_round_number
              ELSE /\ Len(RecordNumbers) > 0
                   /\ RecordNumbers[Len(RecordNumbers)] = current_round_number
                   /\ socketio => progress.current_round = current_round_number
        /\ pc = "done" => Len(simulation_results) <= i

C39_Witness ==
    /\ pc = "done"
    /\ socketio
    /\ num_rounds = 3
    /\ RecordNumbers = <<1, 3>>
    /\ progress.current_round = 3

\* the records the second run has appended so far
LaterResults ==
    SubSeq(simulation_results, Len(earlier_results) + 1, Len(simulation_results))

(***************************************************************************)
(* C40: simulation_results is never cleared: a second run_simulation on    *)
(* the same LearningEnvironment returns the records of the first run       *)
(* followed by those of the second, round numbers restart at 1 in the      *)
(* second run, and get_summary_statistics then covers the records of both  *)
(* runs.                                                                   *)
(***************************************************************************)
C40_SecondRunKeepsRecords ==
    reruns = 1 =>
        /\ IsPrefix(earlier_results, simulation_results)
        /\ Len(LaterResults) <= num_rounds
        /\ \A k \in 1..Len(LaterResults) :
              /\ LaterResults[k].round_number \in 1..num_rounds
              /\ LaterResults[k].round_number >= k
        /\ \A a, b \in 1..Len(LaterResults) :
              a < b => LaterResults[a].round_number < LaterResults[b].round_number
        /\ (RoundReturned /\ ~RoundFailed) =>
              /\ LaterResults # <<>>
              /\ LaterResults[Len(LaterResults)].round_number = i + 1
        /\ pc = "done" =>
              /\ summary.total_rounds = Len(earlier_results) + Len(LaterResults)
              /\ \A k \in 1..Len(simulation_results) :
                    /\ simulation_results[k].topic \in summary.unique_topics_covered
                    /\ summary.min_reward <= simulation_results[k].reward
                    /\ simulation_results[k].reward <= summary.max_reward
              /\ summary.total_rounds > 0 =>
                    summary.average_reward = Mean(RecordedRewards)

C40_Witness ==
    /\ reruns = 1
    /\ pc = "done"
    /\ Len(earlier_results) = 2
    /\ RecordNumbers = <<1, 2, 1>>
    /\ summary.total_rounds = 3
    /\ summary.min_reward < summary.max_reward

====
